---------------------------- MODULE Spec2Model ----------------------------
(***************************************************************************)
(* Model of tbol_gdext: the island authoring container                     *)
(* (luau_sandbox.rs) and the room adjacency engine (mechanics.rs).         *)
(*                                                                         *)
(* Four specifications share the variables:                                *)
(*   Spec       the Island container driven by script calls and host       *)
(*              queries                                                    *)
(*   SpecRooms  the calls that feed and query room adjacency, with one     *)
(*              more call per session                                      *)
(*   SpecSchema the layer lists and the field registries, with every       *)
(*              option table and one call less per session                 *)
(*   SpecAdj    Room::are_adjacent applied to pairs of rooms drawn from    *)
(*              bounded sets of positions and extents                      *)
(***************************************************************************)
EXTENDS Integers, Sequences, FiniteSets, TLC

(***************************************************************************)
(* Bounds of the model.                                                    *)
(***************************************************************************)
\* i64 is modelled as a two's complement integer of IntBits bits
IntBits == 5
\* positions of the rooms drawn in SpecAdj: 0..MaxPos, plus the two ends of i64
MaxPos == 2
\* extents of the rooms drawn in SpecAdj: 0..MaxExtent
MaxExtent == 2

RECURSIVE Pow2(_)
Pow2(n) == IF n = 0 THEN 1 ELSE 2 * Pow2(n - 1)

I64Min == 0 - Pow2(IntBits - 1)
I64Max == Pow2(IntBits - 1) - 1

\* Option<T> is a sequence of length at most one
None == << >>
Some(v) == << v >>
IsSome(o) == Len(o) = 1
Unwrap(o) == o[1]

(***************************************************************************)
(* mechanics.rs: TileData, Room, Island                                    *)
(***************************************************************************)
TileNone == [tag |-> "None", palette |-> 0, target |-> 0]
Tile(p) == [tag |-> "Tile", palette |-> p, target |-> 0]
Door(p, r) == [tag |-> "Door", palette |-> p, target |-> r]

\* tiles: HashMap<GridIndex, TileData> is a set of <<index, tile>> pairs with
\* distinct indices
MkRoom(id, px, py, pz, ex, ey, ez, lx, ly, lz, tiles) ==
    [room_id |-> id,
     pos_x |-> px, pos_y |-> py, pos_z |-> pz,
     extent_x |-> ex, extent_y |-> ey, extent_z |-> ez,
     looping_x |-> lx, looping_y |-> ly, looping_z |-> lz,
     tiles |-> tiles]

MkIsland(dock, name, description) ==
    [dock_room_id |-> dock, name |-> name, description |-> description]

(***************************************************************************)
(* i64 addition.  With overflow checks (the debug profile) an overflowing  *)
(* addition panics, without them (the release profile) it wraps.           *)
(***************************************************************************)
InI64(n) == I64Min <= n /\ n <= I64Max
WrapI64(n) == ((n - I64Min) % Pow2(IntBits)) + I64Min

\* pos + extent as i64, as the build computes it: [panic, value]
AddI64(pos, extent, overflow_checks) ==
    IF InI64(pos + extent)
    THEN [panic |-> FALSE, value |-> pos + extent]
    ELSE IF overflow_checks
         THEN [panic |-> TRUE, value |-> 0]
         ELSE [panic |-> FALSE, value |-> WrapI64(pos + extent)]

(***************************************************************************)
(* Room::are_adjacent                                                      *)
(***************************************************************************)
\* !(a_max <= b_min || b_max <= a_min)
Overlap(a_min, a_max, b_min, b_max) ==
    ~(a_max <= b_min \/ b_max <= a_min)

\* Touch with the second comparison lost: only a_max == b_min
Touch_one_way(a_min, a_max, b_min, b_max) ==
    a_max = b_min

\* Touch that also takes equal lower bounds for a touch
Touch_or_aligned(a_min, a_max, b_min, b_max) ==
    a_max = b_min \/ b_max = a_min \/ a_min = b_min

\* a_max == b_min || b_max == a_min
Touch(a_min, a_max, b_min, b_max) ==
    a_max = b_min \/ b_max = a_min

\* are_adjacent that also follows a Door tile of a leading to b
are_adjacent_or_door(a, b, overflow_checks) ==
    LET a_max_x == AddI64(a.pos_x, a.extent_x, overflow_checks)
        a_max_y == AddI64(a.pos_y, a.extent_y, overflow_checks)
        a_max_z == AddI64(a.pos_z, a.extent_z, overflow_checks)
        b_max_x == AddI64(b.pos_x, b.extent_x, overflow_checks)
        b_max_y == AddI64(b.pos_y, b.extent_y, overflow_checks)
        b_max_z == AddI64(b.pos_z, b.extent_z, overflow_checks)
        overlap_x == Overlap(a.pos_x, a_max_x.value, b.pos_x, b_max_x.value)
        overlap_y == Overlap(a.pos_y, a_max_y.value, b.pos_y, b_max_y.value)
        overlap_z == Overlap(a.pos_z, a_max_z.value, b.pos_z, b_max_z.value)
        face == \/ Touch(a.pos_x, a_max_x.value, b.pos_x, b_max_x.value)
                   /\ overlap_y /\ overlap_z
                \/ Touch(a.pos_y, a_max_y.value, b.pos_y, b_max_y.value)
                   /\ overlap_x /\ overlap_z
                \/ Touch(a.pos_z, a_max_z.value, b.pos_z, b_max_z.value)
                   /\ overlap_x /\ overlap_y
        door == \E t \in a.tiles : t[2].tag = "Door" /\ t[2].target = b.room_id
    IN  IF a_max_x.panic \/ a_max_y.panic \/ a_max_z.panic
           \/ b_max_x.panic \/ b_max_y.panic \/ b_max_z.panic
        THEN [panic |-> TRUE, value |-> FALSE]
        ELSE [panic |-> FALSE, value |-> face \/ door]

\* the outcome of Room::are_adjacent(a, b): [panic, value]
are_adjacent(a, b, overflow_checks) ==
    LET a_min_x == a.pos_x
        a_max_x == AddI64(a.pos_x, a.extent_x, overflow_checks)
        a_min_y == a.pos_y
        a_max_y == AddI64(a.pos_y, a.extent_y, overflow_checks)
        a_min_z == a.pos_z
        a_max_z == AddI64(a.pos_z, a.extent_z, overflow_checks)
        b_min_x == b.pos_x
        b_max_x == AddI64(b.pos_x, b.extent_x, overflow_checks)
        b_min_y == b.pos_y
        b_max_y == AddI64(b.pos_y, b.extent_y, overflow_checks)
        b_min_z == b.pos_z
        b_max_z == AddI64(b.pos_z, b.extent_z, overflow_checks)
        x_adjacent == Touch(a_min_x, a_max_x.value, b_min_x, b_max_x.value)
                      /\ Overlap(a_min_y, a_max_y.value, b_min_y, b_max_y.value)
                      /\ Overlap(a_min_z, a_max_z.value, b_min_z, b_max_z.value)
        y_adjacent == Touch(a_min_y, a_max_y.value, b_min_y, b_max_y.value)
                      /\ Overlap(a_min_x, a_max_x.value, b_min_x, b_max_x.value)
                      /\ Overlap(a_min_z, a_max_z.value, b_min_z, b_max_z.value)
        z_adjacent == Touch(a_min_z, a_max_z.value, b_min_z, b_max_z.value)
                      /\ Overlap(a_min_x, a_max_x.value, b_min_x, b_max_x.value)
                      /\ Overlap(a_min_y, a_max_y.value, b_min_y, b_max_y.value)
    IN  IF a_max_x.panic \/ a_max_y.panic \/ a_max_z.panic
           \/ b_max_x.panic \/ b_max_y.panic \/ b_max_z.panic
        THEN [panic |-> TRUE, value |-> FALSE]
        ELSE [panic |-> FALSE, value |-> x_adjacent \/ y_adjacent \/ z_adjacent]

(***************************************************************************)
(* IslandData::rooms_are_adjacent (mechanics.rs)                           *)
(***************************************************************************)
\* self.rooms.iter().find(|r| r.room_id == id): the first room with the id
\* find that returns the last room with the id
FindRoom_last(room_list, id) ==
    LET hits == {i \in 1..Len(room_list) : room_list[i].room_id = id}
    IN  IF hits = {} THEN None
        ELSE Some(room_list[CHOOSE i \in hits : \A j \in hits : j <= i])

FindRoom(room_list, id) ==
    LET hits == {i \in 1..Len(room_list) : room_list[i].room_id = id}
    IN  IF hits = {} THEN None
        ELSE Some(room_list[CHOOSE i \in hits : \A j \in hits : i <= j])

\* IslandData::new(island, rooms)
IslandDataNew(island, room_list) == [island |-> island, rooms |-> room_list]

\* rooms_are_adjacent without the early return on equal ids
rooms_are_adjacent_no_id_check(self, room_a_id, room_b_id, overflow_checks) ==
    LET room_a == FindRoom(self.rooms, room_a_id)
        room_b == FindRoom(self.rooms, room_b_id)
    IN  IF IsSome(room_a) /\ IsSome(room_b)
        THEN are_adjacent(Unwrap(room_a), Unwrap(room_b), overflow_checks)
        ELSE [panic |-> FALSE, value |-> FALSE]

rooms_are_adjacent(self, room_a_id, room_b_id, overflow_checks) ==
    IF room_a_id = room_b_id
    THEN [panic |-> FALSE, value |-> FALSE]
    ELSE LET room_a == FindRoom(self.rooms, room_a_id)
             room_b == FindRoom(self.rooms, room_b_id)
         IN  IF IsSome(room_a) /\ IsSome(room_b)
             THEN are_adjacent(Unwrap(room_a), Unwrap(room_b), overflow_checks)
             ELSE [panic |-> FALSE, value |-> FALSE]

(***************************************************************************)
(* Room::create_grid (mechanics.rs).  The grid crate is external: a grid   *)
(* keeps its sizes and looping flags, grid data is one cell per index      *)
(* 0 .. total_size - 1 (cell i is element i + 1 of the sequence), and      *)
(* set(index, value) panics on an index out of range.                      *)
(***************************************************************************)
\* CartesianGrid::new_cartesian_3d
new_cartesian_3d(size_x, size_y, size_z, looping_x, looping_y, looping_z) ==
    [size_x |-> size_x, size_y |-> size_y, size_z |-> size_z,
     looping_x |-> looping_x, looping_y |-> looping_y, looping_z |-> looping_z]

\* Grid::total_size
total_size(g) == g.size_x * g.size_y * g.size_z

\* grid.new_grid_data(element): every cell holds a clone of element
new_grid_data(g, element) ==
    [grid |-> g, data |-> [i \in 1..total_size(g) |-> element]]

\* grid_data.set(index, value)
GridSet(grid_data, index, value) ==
    IF index < Len(grid_data.data)
    THEN [panic |-> FALSE,
          value |-> [grid_data EXCEPT !.data[index + 1] = value]]
    ELSE [panic |-> TRUE, value |-> grid_data]

\* for (index, tile) in &self.tiles { grid_data.set(*index, tile.clone()) }
RECURSIVE SetTiles(_, _)
SetTiles(grid_data, tiles) ==
    IF tiles = {} THEN [panic |-> FALSE, value |-> grid_data]
    ELSE LET entry == CHOOSE e \in tiles : TRUE
             r == GridSet(grid_data, entry[1], entry[2])
         IN  IF r.panic THEN r ELSE SetTiles(r.value, tiles \ {entry})

\* create_grid that leaves the tiles out
create_grid_without_tiles(self) ==
    LET g == new_cartesian_3d(self.extent_x, self.extent_y, self.extent_z,
                              self.looping_x, self.looping_y, self.looping_z)
    IN  [panic |-> FALSE, value |-> new_grid_data(g, TileNone)]

create_grid(self) ==
    LET g == new_cartesian_3d(self.extent_x, self.extent_y, self.extent_z,
                              self.looping_x, self.looping_y, self.looping_z)
        grid_data == new_grid_data(g, TileNone)
    IN  SetTiles(grid_data, self.tiles)

(***************************************************************************)
(* Results of calls: a value, a runtime error handed to the script         *)
(* (LuaError::RuntimeError or a conversion error), or a panic.             *)
(***************************************************************************)
Ok(v) == [kind |-> "ok", val |-> v]
Err(msg) == [kind |-> "err", val |-> msg]
Panic(msg) == [kind |-> "panic", val |-> msg]
Unit == "unit"

(***************************************************************************)
(* Paths are sequences of components.  path_security::validate_path and    *)
(* validate_filename are external; they are modelled from their contract:  *)
(* a candidate is resolved against the base directory and is rejected when *)
(* it is absolute or climbs out of the base directory.                     *)
(***************************************************************************)
RECURSIVE Resolve(_, _)
Resolve(components, stack) ==
    IF components = << >> THEN Some(stack)
    ELSE LET c == Head(components)
             rest == Tail(components)
         IN  IF c = ".."
             THEN IF stack = << >> THEN None
                  ELSE Resolve(rest, SubSeq(stack, 1, Len(stack) - 1))
             ELSE IF c = "."
                  THEN Resolve(rest, stack)
                  ELSE Resolve(rest, Append(stack, c))

validate_path(candidate, base) ==
    IF candidate /= << >> /\ Head(candidate) = "/"
    THEN Err(<< "absolute path escapes the base directory" >>)
    ELSE LET r == Resolve(candidate, << >>)
         IN  IF IsSome(r) THEN Ok(base \o Unwrap(r))
             ELSE Err(<< "path traversal escapes the base directory" >>)

\* a name is a sequence of characters or character runs
UnsafeNameParts == {"/", "\\", ".."}

validate_filename(name) ==
    IF \E i \in 1..Len(name) : name[i] \in UnsafeNameParts
    THEN Err(<< "unsafe filename" >>)
    ELSE Ok(Unit)

(***************************************************************************)
(* The files of the session.  A file's content is the RON text of one      *)
(* value; ron::from_str::<T> succeeds on the text of a T and fails on any  *)
(* other text (fields of T are missing).                                   *)
(***************************************************************************)
BasePath == << "tbol_vanilla" >>

Ron(type, v) == [ron |-> type, v |-> v]

IslandA == MkIsland(1, "Test Island", "A test island for loading")
IslandB == MkIsland(2, "Other Island", "A second island")

\* the rooms of test_rooms_are_adjacent_from_luau: room 1 holds a door to room 2
Room1 == MkRoom(1, 0, 0, 0, 5, 5, 5, FALSE, FALSE, FALSE, {<< 10, Door(1, 2) >>})
Room2 == MkRoom(2, 5, 0, 0, 5, 5, 5, FALSE, FALSE, FALSE, {})
\* room 2 of test_load_island_config_manual_registration: same id, apart from room 1
Room2Far == MkRoom(2, 10, 0, 0, 5, 5, 5, FALSE, FALSE, FALSE, {})
\* a flat looping room (extent 0 on y) on top of room 1, with a door to room 2,
\* which it does not touch
Room3 == MkRoom(3, 0, 5, 0, 5, 0, 5, FALSE, TRUE, FALSE,
                {<< 0, Tile(0) >>, << 1, Door(1, 2) >>})
\* a room at the upper end of the i64 range: pos_x + extent_x exceeds i64::MAX
RoomEdge == MkRoom(4, I64Max - 4, 0, 0, 5, 5, 5, FALSE, FALSE, FALSE, {})

Spawn1 == [entity_type |-> "npc_basic", room_id |-> 1, grid_index |-> 5,
           properties |-> {<< "health", "100" >>}]
Spawn2 == [entity_type |-> "npc_basic", room_id |-> 2, grid_index |-> 0,
           properties |-> {}]

PathIsland == << "ron", "island.ron" >>
PathIsland2 == << "ron", "island2.ron" >>
PathRoom1 == << "ron", "room_1.ron" >>
PathRoom2 == << "ron", "room_2.ron" >>
PathRoom2Far == << "ron", "room_2_far.ron" >>
PathRoom3 == << "ron", "room_3.ron" >>
PathRoomEdge == << "ron", "room_edge.ron" >>
PathSpawn == << "ron", "spawns", "enemy_1.ron" >>
PathSpawn2 == << "ron", "spawns", "enemy_2.ron" >>
PathBad == << "ron", "bad.ron" >>
PathMissing == << "ron", "missing.ron" >>
PathEscape == << "..", "..", "etc", "passwd" >>
PathModel == << "models", "character.gltf" >>
PathModel2 == << "models", "tree.gltf" >>

\* std::fs::read_to_string(full_path)
read_to_string(full_path) ==
    CASE full_path = BasePath \o PathIsland -> Ok(Ron("Island", IslandA))
      [] full_path = BasePath \o PathIsland2 -> Ok(Ron("Island", IslandB))
      [] full_path = BasePath \o PathRoom1 -> Ok(Ron("Room", Room1))
      [] full_path = BasePath \o PathRoom2 -> Ok(Ron("Room", Room2))
      [] full_path = BasePath \o PathRoom2Far -> Ok(Ron("Room", Room2Far))
      [] full_path = BasePath \o PathRoom3 -> Ok(Ron("Room", Room3))
      [] full_path = BasePath \o PathRoomEdge -> Ok(Ron("Room", RoomEdge))
      [] full_path = BasePath \o PathSpawn -> Ok(Ron("EntitySpawn", Spawn1))
      [] full_path = BasePath \o PathSpawn2 -> Ok(Ron("EntitySpawn", Spawn2))
      [] full_path = BasePath \o PathBad -> Ok(Ron("garbage", 0))
      \* the file a traversal out of the base directory would reach
      [] full_path = BasePath \o PathEscape -> Ok(Ron("garbage", 0))
      [] OTHER -> Err("No such file or directory")

\* ron::from_str::<T>(content)
from_str(type, content) ==
    IF content.ron = type THEN Ok(content.v)
    ELSE Err("ron: unexpected content")

(***************************************************************************)
(* Script values                                                           *)
(***************************************************************************)
LuaNil == [t |-> "nil", v |-> "nil"]
LuaFunction(f) == [t |-> "function", v |-> f]
LuaInteger(n) == [t |-> "integer", v |-> n]

\* an options table read as if it supplied no callback
GetOptionFunction_none(options, key) == Ok(None)

\* options.get::<Option<Function>>(key): nil is None, a function is Some,
\* any other value is a conversion error
GetOptionFunction(options, key) ==
    LET v == options[key]
    IN  IF v.t = "nil" THEN Ok(None)
        ELSE IF v.t = "function" THEN Ok(Some(v.v))
        ELSE Err(<< "error converting Lua ", v.t, " to function" >>)

\* further script values; v is the literal as the script writes it
LuaNumber(n) == [t |-> "number", v |-> n]
LuaString(s) == [t |-> "string", v |-> s]
LuaBoolean(b) == [t |-> "boolean", v |-> b]
\* a table is named; TableSequence and TablePairs give what it holds
LuaTable(name) == [t |-> "table", v |-> name]

\* script strings are byte strings: these are not valid UTF-8
InvalidUtf8 == {"0xFF"}
\* strings the interpreter converts to an integer
NumericStrings == {"100"}

\* mlua::String::to_str
to_str(s) ==
    IF s \in InvalidUtf8 THEN Err(<< "invalid utf-8 sequence" >>) ELSE Ok(s)

ConversionError(value, target) ==
    Err(<< "error converting Lua ", value.t, " to ", target >>)

\* String::from_lua: a string must be UTF-8, a number is coerced to its text
FromLuaString(value) ==
    IF value.t = "string"
    THEN IF to_str(value.v).kind = "ok" THEN Ok(value.v)
         ELSE ConversionError(value, "String")
    ELSE IF value.t \in {"integer", "number"} THEN Ok(value.v)
    ELSE ConversionError(value, "String")

\* i64::from_lua: an integer, or a string the interpreter reads as one; a
\* number with a fractional part has no i64
FromLuaI64(value) ==
    IF value.t = "integer" THEN Ok(value.v)
    ELSE IF value.t = "string" /\ value.v \in NumericStrings THEN Ok(value.v)
    ELSE ConversionError(value, "i64")

\* Table::from_lua
FromLuaTable(value) ==
    IF value.t = "table" THEN Ok(value.v) ELSE ConversionError(value, "table")

\* options.get::<Option<T>>(key): nil is None, any other value is converted
GetOptionString(options, key) ==
    LET v == options[key]
    IN  IF v.t = "nil" THEN Ok(None)
        ELSE LET c == FromLuaString(v)
             IN  IF c.kind = "ok" THEN Ok(Some(c.val)) ELSE c

GetOptionI64(options, key) ==
    LET v == options[key]
    IN  IF v.t = "nil" THEN Ok(None)
        ELSE LET c == FromLuaI64(v)
             IN  IF c.kind = "ok" THEN Ok(Some(c.val)) ELSE c

GetOptionTable(options, key) ==
    LET v == options[key]
    IN  IF v.t = "nil" THEN Ok(None)
        ELSE LET c == FromLuaTable(v)
             IN  IF c.kind = "ok" THEN Ok(Some(c.val)) ELSE c

\* the tables the scripts build: the values at 1..n
TableSequence(name) ==
    CASE name = "DamageType" ->
            << LuaString("Physical"), LuaString("Fire"), LuaString("Cold") >>
      [] name = "Mixed" ->
            << LuaString("Fire"), LuaBoolean("true"), LuaInteger("7") >>
      [] OTHER -> << >>

\* the tables the scripts build: every key with its value
TablePairs(name) ==
    CASE name = "Schema" ->
            {<< LuaString("hp"), LuaString("int") >>,
             << LuaString("tag"), LuaBoolean("true") >>,
             << LuaString("name"), LuaString("string") >>}
      [] OTHER ->
            {<< LuaInteger(ToString(i)), TableSequence(name)[i] >> :
                i \in 1..Len(TableSequence(name))}

\* for value in t.sequence_values::<String>() { vec.push(value?) }: the first
\* value that does not convert ends the call with its error
RECURSIVE PushAll(_, _)
PushAll(values, vec) ==
    IF values = << >> THEN Ok(vec)
    ELSE LET value == FromLuaString(Head(values))
         IN  IF value.kind = "err" THEN value
             ELSE PushAll(Tail(values), Append(vec, value.val))

\* for value in t.sequence_values::<String>() { if let Ok(v) = value { .. } }:
\* a value that does not convert is skipped
RECURSIVE PushOk(_, _)
PushOk(values, vec) ==
    IF values = << >> THEN vec
    ELSE LET value == FromLuaString(Head(values))
         IN  PushOk(Tail(values),
                    IF value.kind = "ok" THEN Append(vec, value.val) ELSE vec)

\* for pair in t.pairs::<String, String>() { if let Ok((k, v)) = pair { .. } }
InsertOk(pairs) ==
    LET ok == {p \in pairs : FromLuaString(p[1]).kind = "ok"
                             /\ FromLuaString(p[2]).kind = "ok"}
        ks == {FromLuaString(p[1]).val : p \in ok}
    IN  [k \in ks |->
            FromLuaString((CHOOSE p \in ok : FromLuaString(p[1]).val = k)[2]).val]

\* lua.create_registry_value(func): the key names the function it holds
create_registry_value(f) == [registry_key |-> f]

\* HashMap::insert
EmptyMap == [k \in {} |-> 0]
MapInsert(m, k, v) ==
    [x \in (DOMAIN m) \cup {k} |-> IF x = k THEN v ELSE m[x]]

(***************************************************************************)
(* State                                                                   *)
(***************************************************************************)
VARIABLES
    data,       \* IslandData behind the mutex (luau_sandbox.rs)
    poisoned,   \* the mutex is poisoned: a thread panicked while holding it
    last,       \* the most recent call: operation, arguments, result, file reads
    calls,      \* number of calls made so far
    adj,        \* SpecAdj: the pair of rooms and the outcome of are_adjacent
    hist,       \* history: what the successful calls so far were given
    grid,       \* SpecGrid: the room and the outcome of create_grid
    wizard,     \* SpecWizard: IslandMultiplayerWizard, its channel and the tasks spawned
    mem,        \* SpecThreads: IslandData as the steps of the running calls leave it
    mutex,      \* SpecThreads: the Mutex around it: its holder and its poison flag
    frames      \* SpecThreads: each thread's call: operation, position, locals

vars == << data, poisoned, last, calls, adj, hist, grid, wizard, mem, mutex, frames >>

\* calls per session explored
MaxCalls == 3

(***************************************************************************)
(* Inputs of SpecAdj                                                       *)
(***************************************************************************)
NoTiles == {}

\* rooms in a window next to the origin
WindowRooms(id) ==
    {MkRoom(id, px, py, pz, ex, ey, ez, FALSE, FALSE, FALSE, NoTiles) :
        px \in 0..MaxPos, py \in 0..MaxPos, pz \in 0..MaxPos,
        ex \in 0..MaxExtent, ey \in 0..MaxExtent, ez \in 0..MaxExtent}

\* unit rooms at the ends of the i64 range
ExtremeRooms(id) ==
    {MkRoom(id, px, py, pz, 1, 1, 1, FALSE, FALSE, FALSE, NoTiles) :
        px \in {I64Min, 0, I64Max}, py \in {I64Min, 0, I64Max},
        pz \in {I64Min, 0, I64Max}}

RoomInputs(id) == WindowRooms(id) \cup ExtremeRooms(id)

\* rooms of the window with no extent of 0
SolidRooms(id) == {r \in WindowRooms(id) : r.extent_x > 0 /\ r.extent_y > 0 /\ r.extent_z > 0}

\* the solid rooms at the corners of the window
CornerRooms(id) ==
    {r \in SolidRooms(id) :
        r.pos_x \in {0, MaxPos} /\ r.pos_y \in {0, MaxPos} /\ r.pos_z \in {0, MaxPos}}

DefaultRoom == MkRoom(0, 0, 0, 0, 0, 0, 0, FALSE, FALSE, FALSE, NoTiles)
NoOutcome == [panic |-> FALSE, value |-> FALSE]
AdjIdle ==
    [a |-> DefaultRoom, b |-> DefaultRoom, done |-> FALSE,
     overflow_checks |-> FALSE, res |-> NoOutcome]

(***************************************************************************)
(* Inputs of SpecGrid                                                      *)
(***************************************************************************)
\* the largest index a tile map names, and the most entries it has
MaxIndex == 3
MaxTiles == 2

TileArgs == {TileNone, Tile(0), Door(1, 2)}

\* tile maps: at most MaxTiles entries with distinct indices
TileMaps ==
    {m \in SUBSET ((0..MaxIndex) \X TileArgs) :
        /\ Cardinality(m) <= MaxTiles
        /\ \A e1 \in m, e2 \in m : e1[1] = e2[1] => e1 = e2}

GridRooms ==
    {MkRoom(1, 0, 0, 0, ex, ey, ez, lx, ly, lz, tiles) :
        ex \in 0..MaxExtent, ey \in 0..MaxExtent, ez \in 0..MaxExtent,
        lx \in BOOLEAN, ly \in BOOLEAN, lz \in BOOLEAN, tiles \in TileMaps}

GridIdle ==
    [room |-> DefaultRoom, done |-> FALSE,
     res |-> create_grid_without_tiles(DefaultRoom)]

(***************************************************************************)
(* Island::new: IslandData::default() with base_path "tbol_vanilla"        *)
(***************************************************************************)
NewIslandData ==
    [tile_layers |-> << >>,
     entity_layers |-> << >>,
     tile_fields |-> EmptyMap,
     entity_fields |-> EmptyMap,
     island_config |-> None,
     rooms |-> << >>,
     entity_spawns |-> << >>,
     gltf_registry |-> EmptyMap,
     base_path |-> BasePath,
     room_process_fns |-> EmptyMap,
     room_physics_process_fns |-> EmptyMap,
     process_fn |-> None,
     physics_process_fn |-> None]

NoCall == [op |-> "none", args |-> << >>, result |-> Ok(Unit), reads |-> << >>]
Call(op, args, result, reads) ==
    [op |-> op, args |-> args, result |-> result, reads |-> reads]

\* history of a session in which no call has succeeded yet: the paths of the
\* configs loaded, the layer tables set, the fields registered for each kind,
\* the number of spawns loaded, the (name, path) pairs of the assets
\* registered and the (path, options) pairs of the rooms registered, each in
\* call order, and the projection the host holds (the one
\* get_mechanics_island_data returned last)
NoHistory ==
    [islands |-> << >>,
     tile_layers |-> << >>,
     entity_layers |-> << >>,
     tile_fields |-> EmptyMap,
     entity_fields |-> EmptyMap,
     spawns |-> 0,
     gltf |-> << >>,
     rooms |-> << >>,
     held |-> None]

\* IslandMultiplayerWizard as the engine constructs it (class(init)): no
\* channel yet, buttons enabled, no task spawned.  tasks lists the tasks
\* spawned on the runtime, each with the await it stands at; rx is the queue
\* of the channel
NewWizard ==
    [ready |-> FALSE,
     host_disabled |-> FALSE,
     join_disabled |-> FALSE,
     status_ok |-> "",
     status_fail |-> "",
     dht_address |-> "",
     socket_handle |-> 0,
     rx |-> << >>,
     tasks |-> << >>]

\* the threads that share the Island: the interpreter's and one of the host
Threads == {"script", "host"}

NoHolder == "none"
Unlocked == [holder |-> NoHolder, poisoned |-> FALSE]

\* a thread that is in no call and has made none
IdleFrame ==
    [op |-> "none", args |-> << >>, checks |-> FALSE, at |-> "idle", loc |-> << >>,
     result |-> Ok(Unit), serial |-> NoCall, lin |-> FALSE, locks |-> 0]

Init ==
    /\ data = NewIslandData
    /\ poisoned = FALSE
    /\ last = NoCall
    /\ calls = 0
    /\ adj = AdjIdle
    /\ hist = NoHistory
    /\ grid = GridIdle
    /\ wizard = NewWizard
    /\ mem = NewIslandData
    /\ mutex = Unlocked
    /\ frames = [t \in Threads |-> IdleFrame]

\* self.data.lock().unwrap() on a poisoned mutex
PoisonPanic == Panic(<< "PoisonError" >>)

\* a call that returns `result` and leaves the container as it is
Return(op, args, result, reads) ==
    /\ last' = Call(op, args, result, reads)
    /\ UNCHANGED << data, poisoned >>

(***************************************************************************)
(* Content loader: load_island_config, load_entity_spawn, register_room,   *)
(* register_gltf.  The lock is taken first and held to the return.         *)
(***************************************************************************)
\* load_island_config that drops the loaded config before it reads the file
load_island_config_clears_first(path) ==
    LET op == "load_island_config"
        args == << path >>
    IN  IF poisoned THEN Return(op, args, PoisonPanic, << >>)
        ELSE
        LET full_path == validate_path(path, data.base_path)
        IN  IF full_path.kind = "err"
            THEN Return(op, args, Err(full_path.val), << >>)
            ELSE
            LET content == read_to_string(full_path.val)
                reads == << full_path.val >>
                island == from_str("Island", content.val)
            IN  /\ UNCHANGED poisoned
                /\ IF content.kind = "err"
                   THEN /\ data' = [data EXCEPT !.island_config = None]
                        /\ last' = Call(op, args,
                                Err(<< "Failed to read island config from " >> \o path
                                    \o << ": ", content.val >>), reads)
                   ELSE IF island.kind = "err"
                   THEN /\ data' = [data EXCEPT !.island_config = None]
                        /\ last' = Call(op, args,
                                Err(<< "Failed to parse island config: ", island.val >>),
                                reads)
                   ELSE /\ data' = [data EXCEPT !.island_config = Some(island.val)]
                        /\ last' = Call(op, args, Ok(Unit), reads)

\* load_island_config that keeps a config already loaded
load_island_config_keeps_first(path) ==
    LET op == "load_island_config"
        args == << path >>
    IN  IF poisoned THEN Return(op, args, PoisonPanic, << >>)
        ELSE
        LET full_path == validate_path(path, data.base_path)
        IN  IF full_path.kind = "err"
            THEN Return(op, args, Err(full_path.val), << >>)
            ELSE
            LET content == read_to_string(full_path.val)
                reads == << full_path.val >>
            IN  IF content.kind = "err"
                THEN Return(op, args,
                            Err(<< "Failed to read island config from " >> \o path
                                \o << ": ", content.val >>), reads)
                ELSE
                LET island == from_str("Island", content.val)
                IN  IF island.kind = "err"
                    THEN Return(op, args,
                                Err(<< "Failed to parse island config: ", island.val >>),
                                reads)
                    ELSE /\ data' = [data EXCEPT !.island_config =
                                        IF IsSome(@) THEN @ ELSE Some(island.val)]
                         /\ last' = Call(op, args, Ok(Unit), reads)
                         /\ UNCHANGED poisoned

load_island_config(path) ==
    LET op == "load_island_config"
        args == << path >>
    IN  IF poisoned THEN Return(op, args, PoisonPanic, << >>)
        ELSE
        LET full_path == validate_path(path, data.base_path)
        IN  IF full_path.kind = "err"
            THEN Return(op, args, Err(full_path.val), << >>)
            ELSE
            LET content == read_to_string(full_path.val)
                reads == << full_path.val >>
            IN  IF content.kind = "err"
                THEN Return(op, args,
                            Err(<< "Failed to read island config from " >> \o path
                                \o << ": ", content.val >>), reads)
                ELSE
                LET island == from_str("Island", content.val)
                IN  IF island.kind = "err"
                    THEN Return(op, args,
                                Err(<< "Failed to parse island config: ", island.val >>),
                                reads)
                    ELSE /\ data' = [data EXCEPT !.island_config = Some(island.val)]
                         /\ last' = Call(op, args, Ok(Unit), reads)
                         /\ UNCHANGED poisoned

\* load_entity_spawn that keeps the latest spawn only
load_entity_spawn_replaces(path) ==
    LET op == "load_entity_spawn"
        args == << path >>
    IN  IF poisoned THEN Return(op, args, PoisonPanic, << >>)
        ELSE
        LET full_path == validate_path(path, data.base_path)
        IN  IF full_path.kind = "err"
            THEN Return(op, args, Err(full_path.val), << >>)
            ELSE
            LET content == read_to_string(full_path.val)
                reads == << full_path.val >>
            IN  IF content.kind = "err"
                THEN Return(op, args,
                            Err(<< "Failed to read entity spawn from " >> \o path
                                \o << ": ", content.val >>), reads)
                ELSE
                LET spawn == from_str("EntitySpawn", content.val)
                IN  IF spawn.kind = "err"
                    THEN Return(op, args,
                                Err(<< "Failed to parse entity spawn: ", spawn.val >>),
                                reads)
                    ELSE /\ data' = [data EXCEPT
                                       !.entity_spawns = << spawn.val >>]
                         /\ last' = Call(op, args, Ok(Unit), reads)
                         /\ UNCHANGED poisoned

load_entity_spawn(path) ==
    LET op == "load_entity_spawn"
        args == << path >>
    IN  IF poisoned THEN Return(op, args, PoisonPanic, << >>)
        ELSE
        LET full_path == validate_path(path, data.base_path)
        IN  IF full_path.kind = "err"
            THEN Return(op, args, Err(full_path.val), << >>)
            ELSE
            LET content == read_to_string(full_path.val)
                reads == << full_path.val >>
            IN  IF content.kind = "err"
                THEN Return(op, args,
                            Err(<< "Failed to read entity spawn from " >> \o path
                                \o << ": ", content.val >>), reads)
                ELSE
                LET spawn == from_str("EntitySpawn", content.val)
                IN  IF spawn.kind = "err"
                    THEN Return(op, args,
                                Err(<< "Failed to parse entity spawn: ", spawn.val >>),
                                reads)
                    ELSE /\ data' = [data EXCEPT
                                       !.entity_spawns = Append(@, spawn.val)]
                         /\ last' = Call(op, args, Ok(Unit), reads)
                         /\ UNCHANGED poisoned

\* register_room that keeps one room per id
register_room_unique_ids(path, options) ==
    LET op == "register_room"
        args == << path, options >>
    IN  IF poisoned THEN Return(op, args, PoisonPanic, << >>)
        ELSE
        LET full_path == validate_path(path, data.base_path)
        IN  IF full_path.kind = "err"
            THEN Return(op, args, Err(full_path.val), << >>)
            ELSE
            LET room_content == read_to_string(full_path.val)
                reads == << full_path.val >>
            IN  IF room_content.kind = "err"
                THEN Return(op, args,
                            Err(<< "Failed to read room file " >> \o path
                                \o << ": ", room_content.val >>), reads)
                ELSE
                LET room == from_str("Room", room_content.val)
                IN  IF room.kind = "err"
                    THEN Return(op, args,
                                Err(<< "Failed to parse room file " >> \o path
                                    \o << ": ", room.val >>), reads)
                    ELSE
                    LET room_id == room.val.room_id
                        pushed == IF \E k \in 1..Len(data.rooms) :
                                        data.rooms[k].room_id = room_id
                                  THEN data
                                  ELSE [data EXCEPT !.rooms = Append(@, room.val)]
                        process_fn == GetOptionFunction(options, "process")
                    IN  IF process_fn.kind = "err"
                        THEN /\ data' = pushed
                             /\ last' = Call(op, args, process_fn, reads)
                             /\ UNCHANGED poisoned
                        ELSE
                        LET with_process ==
                                IF IsSome(process_fn.val)
                                THEN [pushed EXCEPT !.room_process_fns =
                                        MapInsert(@, room_id,
                                            create_registry_value(Unwrap(process_fn.val)))]
                                ELSE pushed
                            physics_process_fn ==
                                GetOptionFunction(options, "physics_process")
                        IN  IF physics_process_fn.kind = "err"
                            THEN /\ data' = with_process
                                 /\ last' = Call(op, args, physics_process_fn, reads)
                                 /\ UNCHANGED poisoned
                            ELSE
                            /\ data' =
                                 IF IsSome(physics_process_fn.val)
                                 THEN [with_process EXCEPT !.room_physics_process_fns =
                                        MapInsert(@, room_id,
                                            create_registry_value(
                                                Unwrap(physics_process_fn.val)))]
                                 ELSE with_process
                            /\ last' = Call(op, args, Ok(Unit), reads)
                            /\ UNCHANGED poisoned

\* options is the script table [process, physics_process].  The room is pushed
\* before the options are read: a conversion error of an option returns with
\* the room (and an earlier callback) already stored.
register_room(path, options) ==
    LET op == "register_room"
        args == << path, options >>
    IN  IF poisoned THEN Return(op, args, PoisonPanic, << >>)
        ELSE
        LET full_path == validate_path(path, data.base_path)
        IN  IF full_path.kind = "err"
            THEN Return(op, args, Err(full_path.val), << >>)
            ELSE
            LET room_content == read_to_string(full_path.val)
                reads == << full_path.val >>
            IN  IF room_content.kind = "err"
                THEN Return(op, args,
                            Err(<< "Failed to read room file " >> \o path
                                \o << ": ", room_content.val >>), reads)
                ELSE
                LET room == from_str("Room", room_content.val)
                IN  IF room.kind = "err"
                    THEN Return(op, args,
                                Err(<< "Failed to parse room file " >> \o path
                                    \o << ": ", room.val >>), reads)
                    ELSE
                    LET room_id == room.val.room_id
                        pushed == [data EXCEPT !.rooms = Append(@, room.val)]
                        process_fn == GetOptionFunction(options, "process")
                    IN  IF process_fn.kind = "err"
                        THEN /\ data' = pushed
                             /\ last' = Call(op, args, process_fn, reads)
                             /\ UNCHANGED poisoned
                        ELSE
                        LET with_process ==
                                IF IsSome(process_fn.val)
                                THEN [pushed EXCEPT !.room_process_fns =
                                        MapInsert(@, room_id,
                                            create_registry_value(Unwrap(process_fn.val)))]
                                ELSE pushed
                            physics_process_fn ==
                                GetOptionFunction(options, "physics_process")
                        IN  IF physics_process_fn.kind = "err"
                            THEN /\ data' = with_process
                                 /\ last' = Call(op, args, physics_process_fn, reads)
                                 /\ UNCHANGED poisoned
                            ELSE
                            /\ data' =
                                 IF IsSome(physics_process_fn.val)
                                 THEN [with_process EXCEPT !.room_physics_process_fns =
                                        MapInsert(@, room_id,
                                            create_registry_value(
                                                Unwrap(physics_process_fn.val)))]
                                 ELSE with_process
                            /\ last' = Call(op, args, Ok(Unit), reads)
                            /\ UNCHANGED poisoned

\* register_gltf that keeps the entry a name already has
register_gltf_keeps_first(name, path) ==
    LET op == "register_gltf"
        args == << name, path >>
        checked == validate_filename(name)
    IN  IF checked.kind = "err"
        THEN Return(op, args, Err(<< "Invalid GLTF name: " >> \o checked.val), << >>)
        ELSE IF poisoned THEN Return(op, args, PoisonPanic, << >>)
        ELSE
        LET fullpath == validate_path(path, data.base_path)
        IN  IF fullpath.kind = "err"
            THEN /\ poisoned' = TRUE
                 /\ last' = Call(op, args,
                                 Panic(<< "called Result::unwrap() on an Err value: " >>
                                       \o fullpath.val), << >>)
                 /\ UNCHANGED data
            ELSE /\ data' = IF name \in DOMAIN data.gltf_registry THEN data
                            ELSE [data EXCEPT !.gltf_registry =
                                    MapInsert(@, name, fullpath.val)]
                 /\ last' = Call(op, args, Ok(Unit), << >>)
                 /\ UNCHANGED poisoned

\* validate_filename runs before the lock is taken; validate_path(..).unwrap()
\* runs with the lock held, so a rejected path panics and poisons the mutex
register_gltf(name, path) ==
    LET op == "register_gltf"
        args == << name, path >>
        checked == validate_filename(name)
    IN  IF checked.kind = "err"
        THEN Return(op, args, Err(<< "Invalid GLTF name: " >> \o checked.val), << >>)
        ELSE IF poisoned THEN Return(op, args, PoisonPanic, << >>)
        ELSE
        LET fullpath == validate_path(path, data.base_path)
        IN  IF fullpath.kind = "err"
            THEN /\ poisoned' = TRUE
                 /\ last' = Call(op, args,
                                 Panic(<< "called Result::unwrap() on an Err value: " >>
                                       \o fullpath.val), << >>)
                 /\ UNCHANGED data
            ELSE /\ data' = [data EXCEPT !.gltf_registry =
                                MapInsert(@, name, fullpath.val)]
                 /\ last' = Call(op, args, Ok(Unit), << >>)
                 /\ UNCHANGED poisoned

(***************************************************************************)
(* Global callbacks.  The argument is converted to a Function before the   *)
(* method body runs; a value that is no function is a conversion error.    *)
(***************************************************************************)
\* register_process_fn that stores the callback in both global slots
register_process_fn_both_slots(func) ==
    LET op == "register_process_fn"
        args == << func >>
    IN  IF func.t /= "function"
        THEN Return(op, args, Err(<< "error converting Lua ", func.t, " to function" >>),
                    << >>)
        ELSE IF poisoned THEN Return(op, args, PoisonPanic, << >>)
        ELSE /\ data' = [data EXCEPT
                           !.process_fn = Some(create_registry_value(func.v)),
                           !.physics_process_fn = Some(create_registry_value(func.v))]
             /\ last' = Call(op, args, Ok(Unit), << >>)
             /\ UNCHANGED poisoned

register_process_fn(func) ==
    LET op == "register_process_fn"
        args == << func >>
    IN  IF func.t /= "function"
        THEN Return(op, args, Err(<< "error converting Lua ", func.t, " to function" >>),
                    << >>)
        ELSE IF poisoned THEN Return(op, args, PoisonPanic, << >>)
        ELSE /\ data' = [data EXCEPT !.process_fn = Some(create_registry_value(func.v))]
             /\ last' = Call(op, args, Ok(Unit), << >>)
             /\ UNCHANGED poisoned

register_physics_process_fn(func) ==
    LET op == "register_physics_process_fn"
        args == << func >>
    IN  IF func.t /= "function"
        THEN Return(op, args, Err(<< "error converting Lua ", func.t, " to function" >>),
                    << >>)
        ELSE IF poisoned THEN Return(op, args, PoisonPanic, << >>)
        ELSE /\ data' = [data EXCEPT
                           !.physics_process_fn = Some(create_registry_value(func.v))]
             /\ last' = Call(op, args, Ok(Unit), << >>)
             /\ UNCHANGED poisoned

(***************************************************************************)
(* Schema registry: layer lists and field registrations.  The arguments    *)
(* are converted before the lock is taken.                                 *)
(***************************************************************************)
DefaultInt(i) == [tag |-> "Int", value |-> i]
DefaultFloat(n) == [tag |-> "Float", value |-> n]
DefaultString(s) == [tag |-> "String", value |-> s]
DefaultBool(b) == [tag |-> "Bool", value |-> b]

\* a default that tags every number as a float
ParseDefault_float(v) ==
    IF v.t \in {"integer", "number"} THEN Some(DefaultFloat(v.v))
    ELSE IF v.t = "string" /\ to_str(v.v).kind = "ok" THEN Some(DefaultString(v.v))
    ELSE IF v.t = "boolean" THEN Some(DefaultBool(v.v))
    ELSE None

\* the `default` option: the match on the script value
ParseDefault(v) ==
    IF v.t = "integer" THEN Some(DefaultInt(v.v))
    ELSE IF v.t = "number" THEN Some(DefaultFloat(v.v))
    ELSE IF v.t = "string"
    THEN IF to_str(v.v).kind = "ok" THEN Some(DefaultString(v.v)) ELSE None
    ELSE IF v.t = "boolean" THEN Some(DefaultBool(v.v))
    ELSE None

\* a `values` option that keeps a number as the value type
ParseValues_keeps_number(v) ==
    IF v.t = "table"
    THEN [values |-> Some(PushOk(TableSequence(v.v), << >>)), value_type |-> None]
    ELSE IF v.t \in {"string", "integer"}
    THEN [values |-> None, value_type |-> Some(v.v)]
    ELSE [values |-> None, value_type |-> None]

\* the `values` option: a table is the list of values, a string the value type
ParseValues(v) ==
    IF v.t = "table"
    THEN [values |-> Some(PushOk(TableSequence(v.v), << >>)), value_type |-> None]
    ELSE IF v.t = "string"
    THEN [values |-> None,
          value_type |-> IF to_str(v.v).kind = "ok" THEN Some(v.v) ELSE None]
    ELSE [values |-> None, value_type |-> None]

parse_field_options(options) ==
    LET default == ParseDefault(options["default"])
        min == GetOptionI64(options, "min")
        max == GetOptionI64(options, "max")
        parsed == ParseValues(options["values"])
        keys == GetOptionString(options, "keys")
        item_type == GetOptionString(options, "item_type")
        schema == GetOptionTable(options, "schema")
    IN  IF min.kind = "err" THEN min
        ELSE IF max.kind = "err" THEN max
        ELSE IF keys.kind = "err" THEN keys
        ELSE IF item_type.kind = "err" THEN item_type
        ELSE IF schema.kind = "err" THEN schema
        ELSE Ok([default |-> default,
                 min |-> min.val,
                 max |-> max.val,
                 values |-> parsed.values,
                 keys |-> keys.val,
                 value_type |-> parsed.value_type,
                 item_type |-> item_type.val,
                 schema |-> IF IsSome(schema.val)
                            THEN Some(InsertOk(TablePairs(Unwrap(schema.val))))
                            ELSE None])

FieldRegistration(field_name, field_type, options) ==
    [field_name |-> field_name, field_type |-> field_type, options |-> options]

\* a registry that keeps one registration per field name
PushField_one_per_name(fields, kind, registration) ==
    LET old == IF kind \in DOMAIN fields THEN fields[kind] ELSE << >>
        others == SelectSeq(old, LAMBDA r : r.field_name /= registration.field_name)
    IN  MapInsert(fields, kind, Append(others, registration))

\* fields.entry(kind).or_insert_with(Vec::new).push(registration)
PushField(fields, kind, registration) ==
    MapInsert(fields, kind,
              Append(IF kind \in DOMAIN fields THEN fields[kind] ELSE << >>,
                     registration))

\* set_tile_layers that stores the list as both layer lists
set_tile_layers_both_lists(layers) ==
    LET op == "set_tile_layers"
        args == << layers >>
        layer_vec == PushAll(layers, << >>)
    IN  IF layer_vec.kind = "err" THEN Return(op, args, layer_vec, << >>)
        ELSE IF poisoned THEN Return(op, args, PoisonPanic, << >>)
        ELSE /\ data' = [data EXCEPT !.tile_layers = layer_vec.val,
                                     !.entity_layers = layer_vec.val]
             /\ last' = Call(op, args, Ok(Unit), << >>)
             /\ UNCHANGED poisoned

set_tile_layers(layers) ==
    LET op == "set_tile_layers"
        args == << layers >>
        layer_vec == PushAll(layers, << >>)
    IN  IF layer_vec.kind = "err" THEN Return(op, args, layer_vec, << >>)
        ELSE IF poisoned THEN Return(op, args, PoisonPanic, << >>)
        ELSE /\ data' = [data EXCEPT !.tile_layers = layer_vec.val]
             /\ last' = Call(op, args, Ok(Unit), << >>)
             /\ UNCHANGED poisoned

set_entity_layers(layers) ==
    LET op == "set_entity_layers"
        args == << layers >>
        layer_vec == PushAll(layers, << >>)
    IN  IF layer_vec.kind = "err" THEN Return(op, args, layer_vec, << >>)
        ELSE IF poisoned THEN Return(op, args, PoisonPanic, << >>)
        ELSE /\ data' = [data EXCEPT !.entity_layers = layer_vec.val]
             /\ last' = Call(op, args, Ok(Unit), << >>)
             /\ UNCHANGED poisoned

\* register_tile_field that opens the kind's entry before it reads the options
register_tile_field_entry_first(tile_type, field_name, field_type, options) ==
    LET op == "register_tile_field"
        args == << tile_type, field_name, field_type, options >>
        field_options == parse_field_options(options)
        opened == IF tile_type \in DOMAIN data.tile_fields THEN data.tile_fields
                  ELSE MapInsert(data.tile_fields, tile_type, << >>)
    IN  IF poisoned THEN Return(op, args, PoisonPanic, << >>)
        ELSE IF field_options.kind = "err"
        THEN /\ data' = [data EXCEPT !.tile_fields = opened]
             /\ last' = Call(op, args, field_options, << >>)
             /\ UNCHANGED poisoned
        ELSE /\ data' = [data EXCEPT !.tile_fields =
                            PushField(@, tile_type,
                                FieldRegistration(field_name, field_type,
                                                  field_options.val))]
             /\ last' = Call(op, args, Ok(Unit), << >>)
             /\ UNCHANGED poisoned

register_tile_field(tile_type, field_name, field_type, options) ==
    LET op == "register_tile_field"
        args == << tile_type, field_name, field_type, options >>
        field_options == parse_field_options(options)
    IN  IF field_options.kind = "err" THEN Return(op, args, field_options, << >>)
        ELSE IF poisoned THEN Return(op, args, PoisonPanic, << >>)
        ELSE /\ data' = [data EXCEPT !.tile_fields =
                            PushField(@, tile_type,
                                FieldRegistration(field_name, field_type,
                                                  field_options.val))]
             /\ last' = Call(op, args, Ok(Unit), << >>)
             /\ UNCHANGED poisoned

register_entity_field(entity_type, field_name, field_type, options) ==
    LET op == "register_entity_field"
        args == << entity_type, field_name, field_type, options >>
        field_options == parse_field_options(options)
    IN  IF field_options.kind = "err" THEN Return(op, args, field_options, << >>)
        ELSE IF poisoned THEN Return(op, args, PoisonPanic, << >>)
        ELSE /\ data' = [data EXCEPT !.entity_fields =
                            PushField(@, entity_type,
                                FieldRegistration(field_name, field_type,
                                                  field_options.val))]
             /\ last' = Call(op, args, Ok(Unit), << >>)
             /\ UNCHANGED poisoned

(***************************************************************************)
(* Queries                                                                 *)
(***************************************************************************)
get_room_count ==
    LET op == "get_room_count"
    IN  IF poisoned THEN Return(op, << >>, PoisonPanic, << >>)
        ELSE Return(op, << >>, Ok(Len(data.rooms)), << >>)

get_entity_spawn_count ==
    LET op == "get_entity_spawn_count"
    IN  IF poisoned THEN Return(op, << >>, PoisonPanic, << >>)
        ELSE Return(op, << >>, Ok(Len(data.entity_spawns)), << >>)

\* a projection that takes the config and leaves the rooms out
MechanicsIslandData_without_rooms(d) ==
    IF IsSome(d.island_config)
    THEN Some(IslandDataNew(Unwrap(d.island_config), << >>))
    ELSE None

\* Island::get_mechanics_island_data: a clone of the config and of the rooms,
\* None while no config is loaded; the lock is released on return
MechanicsIslandData(d) ==
    IF IsSome(d.island_config)
    THEN Some(IslandDataNew(Unwrap(d.island_config), d.rooms))
    ELSE None

get_mechanics_island_data ==
    LET op == "get_mechanics_island_data"
    IN  IF poisoned THEN Return(op, << >>, PoisonPanic, << >>)
        ELSE Return(op, << >>, Ok(MechanicsIslandData(data)), << >>)

get_tile_layers ==
    LET op == "get_tile_layers"
    IN  IF poisoned THEN Return(op, << >>, PoisonPanic, << >>)
        ELSE Return(op, << >>, Ok(data.tile_layers), << >>)

get_entity_layers ==
    LET op == "get_entity_layers"
    IN  IF poisoned THEN Return(op, << >>, PoisonPanic, << >>)
        ELSE Return(op, << >>, Ok(data.entity_layers), << >>)

\* the script method rooms_are_adjacent: the projection is taken under the
\* lock, the adjacency is computed on the clone after the lock is released
ScriptRoomsAreAdjacentResult(d, is_poisoned, room_a_id, room_b_id, overflow_checks) ==
    IF is_poisoned THEN PoisonPanic
    ELSE LET mechanics_data == MechanicsIslandData(d)
         IN  IF ~IsSome(mechanics_data)
             THEN Err(<< "Island config not loaded" >>)
             ELSE LET r == rooms_are_adjacent(Unwrap(mechanics_data),
                                              room_a_id, room_b_id, overflow_checks)
                  IN  IF r.panic THEN Panic(<< "attempt to add with overflow" >>)
                      ELSE Ok(r.value)

script_rooms_are_adjacent(room_a_id, room_b_id, overflow_checks) ==
    Return("rooms_are_adjacent", << room_a_id, room_b_id >>,
           ScriptRoomsAreAdjacentResult(data, poisoned, room_a_id, room_b_id,
                                        overflow_checks),
           << >>)

(***************************************************************************)
(* Spec: the calls a script and the host make on one Island                *)
(***************************************************************************)
PathArgs ==
    {PathIsland, PathIsland2, PathRoom1, PathRoom2, PathRoom2Far, PathRoom3,
     PathRoomEdge, PathSpawn, PathSpawn2, PathBad, PathMissing, PathEscape}

\* the paths Spec gives each loader: its own files, a file that does not
\* parse, a missing file and a path out of the base directory
IslandPathArgs ==
    {PathIsland, PathIsland2, PathBad, PathMissing, PathEscape}
SpawnPathArgs ==
    {PathSpawn, PathSpawn2, PathBad, PathMissing, PathEscape}
RoomPathArgs ==
    {PathRoom1, PathRoom2, PathRoom2Far, PathBad, PathMissing, PathEscape}

RoomOptions(process, physics_process) ==
    [process |-> process, physics_process |-> physics_process]
RoomOptionArgs ==
    {RoomOptions(LuaNil, LuaNil),
     RoomOptions(LuaFunction("f1"), LuaNil),
     RoomOptions(LuaFunction("f2"), LuaNil),
     RoomOptions(LuaNil, LuaFunction("f2")),
     RoomOptions(LuaInteger("7"), LuaFunction("f2")),
     RoomOptions(LuaFunction("f1"), LuaInteger("7"))}

\* the register_room calls of Spec: every options table with the file of
\* room 1, the empty table with every other path
RoomCallArgs ==
    {<< PathRoom1, options >> : options \in RoomOptionArgs}
    \cup {<< path, RoomOptions(LuaNil, LuaNil) >> : path \in RoomPathArgs}

\* the register_gltf calls of Spec
GltfCallArgs ==
    {<< << "character" >>, PathModel >>, << << "character" >>, PathModel2 >>,
     << << "tree" >>, PathModel >>, << << "character" >>, PathEscape >>,
     << << "..", "/", "evil" >>, PathModel >>,
     << << "..", "/", "evil" >>, PathEscape >>}

NameArgs == {<< "character" >>, << "tree" >>, << "..", "/", "evil" >>}
GltfPathArgs == {PathModel, PathModel2, PathEscape}

CallbackArgs == {LuaFunction("f1"), LuaFunction("f2"), LuaInteger("7")}

RoomIdArgs == {1, 2, 3, 4, 999}
\* the ids Spec asks about
FewRoomIdArgs == {1, 2}
\* the ids SpecRooms asks about
QueryRoomIdArgs == {1, 2, 4, 999}

\* an options table of register_tile_field / register_entity_field: the seven
\* keys parse_field_options reads and one it does not
NoOptions ==
    [default |-> LuaNil, min |-> LuaNil, max |-> LuaNil, values |-> LuaNil,
     keys |-> LuaNil, item_type |-> LuaNil, schema |-> LuaNil, tooltip |-> LuaNil]

\* (field_name, field_type, options) as the scripts of the tests pass them
TestFieldArgs ==
    {<< "damage_on_touch", "int", [NoOptions EXCEPT !.default = LuaInteger("10")] >>,
     << "damage_type", "enum",
        [NoOptions EXCEPT !.values = LuaTable("DamageType"),
                          !.default = LuaString("Fire")] >>,
     << "destination", "map",
        [NoOptions EXCEPT !.keys = LuaString("string"),
                          !.values = LuaString("int")] >>,
     << "messages", "list", [NoOptions EXCEPT !.item_type = LuaString("string")] >>,
     << "health", "int",
        [NoOptions EXCEPT !.min = LuaInteger("1"), !.max = LuaInteger("1000"),
                          !.default = LuaInteger("100")] >>}

\* further option tables: every kind of default, values that are dropped and
\* values that do not convert
OtherFieldArgs ==
    {<< "health", "int", NoOptions >>,
     << "speed", "float", [NoOptions EXCEPT !.default = LuaNumber("2.5")] >>,
     << "hostile", "bool", [NoOptions EXCEPT !.default = LuaBoolean("true")] >>,
     << "label", "string", [NoOptions EXCEPT !.default = LuaString("0xFF")] >>,
     << "health", "int", [NoOptions EXCEPT !.default = LuaTable("DamageType")] >>,
     << "health", "int", [NoOptions EXCEPT !.default = LuaFunction("f1")] >>,
     << "health", "int", [NoOptions EXCEPT !.tooltip = LuaString("hot")] >>,
     << "damage_type", "enum", [NoOptions EXCEPT !.values = LuaInteger("7")] >>,
     << "damage_type", "enum", [NoOptions EXCEPT !.values = LuaTable("Mixed")] >>,
     << "damage_type", "enum", [NoOptions EXCEPT !.values = LuaString("0xFF")] >>,
     << "stats", "struct", [NoOptions EXCEPT !.schema = LuaTable("Schema")] >>,
     << "health", "int", [NoOptions EXCEPT !.min = LuaString("100")] >>,
     << "health", "int", [NoOptions EXCEPT !.min = LuaString("low")] >>,
     << "health", "int", [NoOptions EXCEPT !.max = LuaBoolean("true")] >>,
     << "health", "int", [NoOptions EXCEPT !.max = LuaNumber("2.5")] >>,
     << "stats", "map", [NoOptions EXCEPT !.keys = LuaInteger("7")] >>,
     << "stats", "map", [NoOptions EXCEPT !.keys = LuaBoolean("true")] >>,
     << "messages", "list", [NoOptions EXCEPT !.item_type = LuaTable("Mixed")] >>,
     << "stats", "struct", [NoOptions EXCEPT !.schema = LuaInteger("7")] >>}

FieldArgs == TestFieldArgs \cup OtherFieldArgs
\* the option tables Spec passes: one that parses, one that is dropped in part,
\* one that does not convert
FewFieldArgs ==
    {<< "damage_on_touch", "int", [NoOptions EXCEPT !.default = LuaInteger("10")] >>,
     << "health", "int", [NoOptions EXCEPT !.tooltip = LuaString("hot")] >>,
     << "health", "int", [NoOptions EXCEPT !.min = LuaString("low")] >>}

KindArgs == {"lava_tile", "npc_basic"}

\* the sequence a layers table holds
LayerArgs ==
    {<< >>,
     << LuaString("Background"), LuaString("Floor"), LuaString("Walls") >>,
     << LuaString("Floor") >>,
     << LuaString("Walls"), LuaString("Floor") >>,
     << LuaString("Floor"), LuaInteger("7") >>,
     << LuaString("Floor"), LuaBoolean("true") >>}
FewLayerArgs ==
    {<< LuaString("Background"), LuaString("Floor"), LuaString("Walls") >>,
     << LuaString("Floor"), LuaBoolean("true") >>}

\* the history after `call`: a call that did not succeed leaves no trace
Recorded(h, call) ==
    IF call.result.kind /= "ok" THEN h
    ELSE CASE call.op = "load_island_config" ->
                [h EXCEPT !.islands = Append(@, call.args[1])]
           [] call.op = "set_tile_layers" ->
                [h EXCEPT !.tile_layers = Append(@, call.args[1])]
           [] call.op = "set_entity_layers" ->
                [h EXCEPT !.entity_layers = Append(@, call.args[1])]
           [] call.op = "register_tile_field" ->
                [h EXCEPT !.tile_fields =
                    MapInsert(@, call.args[1],
                        Append(IF call.args[1] \in DOMAIN @ THEN @[call.args[1]]
                               ELSE << >>,
                               << call.args[2], call.args[3], call.args[4] >>))]
           [] call.op = "register_entity_field" ->
                [h EXCEPT !.entity_fields =
                    MapInsert(@, call.args[1],
                        Append(IF call.args[1] \in DOMAIN @ THEN @[call.args[1]]
                               ELSE << >>,
                               << call.args[2], call.args[3], call.args[4] >>))]
           [] call.op = "load_entity_spawn" ->
                [h EXCEPT !.spawns = @ + 1]
           [] call.op = "register_gltf" ->
                [h EXCEPT !.gltf = Append(@, << call.args[1], call.args[2] >>)]
           [] call.op = "register_room" ->
                [h EXCEPT !.rooms = Append(@, << call.args[1], call.args[2] >>)]
           [] call.op = "get_mechanics_island_data" ->
                [h EXCEPT !.held = call.result.val]
           [] OTHER -> h

\* one call, applied whole
CallWithin(budget, A) ==
    /\ calls < budget
    /\ A
    /\ calls' = calls + 1
    /\ hist' = Recorded(hist, last')
    /\ UNCHANGED << adj, grid, wizard >>

StepWithin(budget, A) ==
    /\ CallWithin(budget, A)
    /\ UNCHANGED << mem, mutex, frames >>

Step(A) == StepWithin(MaxCalls, A)

LoadIslandConfig == \E path \in IslandPathArgs : Step(load_island_config(path))
LoadEntitySpawn == \E path \in SpawnPathArgs : Step(load_entity_spawn(path))
RegisterRoom ==
    \E c \in RoomCallArgs : Step(register_room(c[1], c[2]))
RegisterGltf == \E c \in GltfCallArgs : Step(register_gltf(c[1], c[2]))
RegisterProcessFn == \E func \in CallbackArgs : Step(register_process_fn(func))
RegisterPhysicsProcessFn ==
    \E func \in CallbackArgs : Step(register_physics_process_fn(func))
GetRoomCount == Step(get_room_count)
GetEntitySpawnCount == Step(get_entity_spawn_count)
GetMechanicsIslandData == Step(get_mechanics_island_data)
GetTileLayers == Step(get_tile_layers)
GetEntityLayers == Step(get_entity_layers)
RoomsAreAdjacent ==
    \E a \in FewRoomIdArgs, b \in FewRoomIdArgs, checks \in BOOLEAN :
        Step(script_rooms_are_adjacent(a, b, checks))
SetTileLayers == \E layers \in FewLayerArgs : Step(set_tile_layers(layers))
SetEntityLayers == \E layers \in FewLayerArgs : Step(set_entity_layers(layers))
RegisterTileField ==
    \E kind \in KindArgs, f \in FewFieldArgs :
        Step(register_tile_field(kind, f[1], f[2], f[3]))
RegisterEntityField ==
    \E kind \in KindArgs, f \in FewFieldArgs :
        Step(register_entity_field(kind, f[1], f[2], f[3]))

Next ==
    \/ LoadIslandConfig
    \/ LoadEntitySpawn
    \/ RegisterRoom
    \/ RegisterGltf
    \/ RegisterProcessFn
    \/ RegisterPhysicsProcessFn
    \/ GetRoomCount
    \/ GetEntitySpawnCount
    \/ GetMechanicsIslandData
    \/ GetTileLayers
    \/ GetEntityLayers
    \/ RoomsAreAdjacent
    \/ SetTileLayers
    \/ SetEntityLayers
    \/ RegisterTileField
    \/ RegisterEntityField

Spec == Init /\ [][Next]_vars

(***************************************************************************)
(* SpecSchema: the schema registry alone (layer lists, field registrations,*)
(* their queries and register_gltf), with every option table and one call  *)
(* less than Spec                                                          *)
(***************************************************************************)
SchemaCalls == MaxCalls - 1

SchemaStep(A) == StepWithin(SchemaCalls, A)

SchemaSetTileLayers == \E layers \in LayerArgs : SchemaStep(set_tile_layers(layers))
SchemaSetEntityLayers ==
    \E layers \in LayerArgs : SchemaStep(set_entity_layers(layers))
SchemaRegisterTileField ==
    \E kind \in KindArgs, f \in FieldArgs :
        SchemaStep(register_tile_field(kind, f[1], f[2], f[3]))
SchemaRegisterEntityField ==
    \E kind \in KindArgs, f \in FieldArgs :
        SchemaStep(register_entity_field(kind, f[1], f[2], f[3]))
SchemaRegisterGltf ==
    \E name \in NameArgs, path \in GltfPathArgs :
        SchemaStep(register_gltf(name, path))
SchemaGetTileLayers == SchemaStep(get_tile_layers)
SchemaGetEntityLayers == SchemaStep(get_entity_layers)

NextSchema ==
    \/ SchemaSetTileLayers
    \/ SchemaSetEntityLayers
    \/ SchemaRegisterTileField
    \/ SchemaRegisterEntityField
    \/ SchemaRegisterGltf
    \/ SchemaGetTileLayers
    \/ SchemaGetEntityLayers

SpecSchema == Init /\ [][NextSchema]_vars

(***************************************************************************)
(* SpecRooms: the adjacency pipeline alone (config, rooms, the queries and *)
(* register_gltf), one call deeper than Spec                               *)
(***************************************************************************)
RoomCalls == MaxCalls + 1

RoomStep(A) == StepWithin(RoomCalls, A)

RoomsLoadIslandConfig ==
    \E path \in IslandPathArgs : RoomStep(load_island_config(path))
\* rooms are registered as the tests do: register_room(path, {})
RoomsRegisterRoom ==
    \E path \in RoomPathArgs \cup {PathRoom3, PathRoomEdge} :
        RoomStep(register_room(path, RoomOptions(LuaNil, LuaNil)))
RoomsRegisterGltf == \E c \in GltfCallArgs : RoomStep(register_gltf(c[1], c[2]))
RoomsGetMechanicsIslandData == RoomStep(get_mechanics_island_data)
RoomsRoomsAreAdjacent ==
    \E a \in QueryRoomIdArgs, b \in QueryRoomIdArgs, checks \in BOOLEAN :
        RoomStep(script_rooms_are_adjacent(a, b, checks))

NextRooms ==
    \/ RoomsLoadIslandConfig
    \/ RoomsRegisterRoom
    \/ RoomsRegisterGltf
    \/ RoomsGetMechanicsIslandData
    \/ RoomsRoomsAreAdjacent

SpecRooms == Init /\ [][NextRooms]_vars

(***************************************************************************)
(* SpecAdj: Room::are_adjacent on rooms drawn from bounded sets            *)
(***************************************************************************)
\* the caller holds two rooms: both in the window, or one of them at an end of
\* the i64 range
InitAdj ==
    /\ data = NewIslandData
    /\ poisoned = FALSE
    /\ last = NoCall
    /\ calls = 0
    /\ hist = NoHistory
    /\ grid = GridIdle
    /\ wizard = NewWizard
    /\ mem = NewIslandData
    /\ mutex = Unlocked
    /\ frames = [t \in Threads |-> IdleFrame]
    /\ \/ \E ra \in WindowRooms(1), rb \in WindowRooms(2) :
            adj = [AdjIdle EXCEPT !.a = ra, !.b = rb]
       \/ \E ra \in RoomInputs(1), rb \in ExtremeRooms(2) :
            adj = [AdjIdle EXCEPT !.a = ra, !.b = rb]
       \/ \E ra \in ExtremeRooms(1), rb \in WindowRooms(2) :
            adj = [AdjIdle EXCEPT !.a = ra, !.b = rb]

\* Room::are_adjacent(a, b), in a build with or without overflow checks
AreAdjacentCall ==
    /\ ~adj.done
    /\ \E checks \in BOOLEAN :
        adj' = [adj EXCEPT !.done = TRUE,
                           !.overflow_checks = checks,
                           !.res = are_adjacent(adj.a, adj.b, checks)]
    /\ UNCHANGED << data, poisoned, last, calls, hist, grid, wizard, mem, mutex, frames >>

NextAdj == AreAdjacentCall

SpecAdj == InitAdj /\ [][NextAdj]_vars

(***************************************************************************)
(* SpecSolid: Room::are_adjacent on rooms with positive extents            *)
(***************************************************************************)
\* a stands at a corner of the window or at an end of the i64 range, b
\* anywhere in the window or at an end of the i64 range
InitSolid ==
    /\ data = NewIslandData
    /\ poisoned = FALSE
    /\ last = NoCall
    /\ calls = 0
    /\ hist = NoHistory
    /\ grid = GridIdle
    /\ wizard = NewWizard
    /\ mem = NewIslandData
    /\ mutex = Unlocked
    /\ frames = [t \in Threads |-> IdleFrame]
    /\ \E ra \in CornerRooms(1) \cup ExtremeRooms(1),
          rb \in SolidRooms(2) \cup ExtremeRooms(2) :
            adj = [AdjIdle EXCEPT !.a = ra, !.b = rb]

NextSolid == AreAdjacentCall

SpecSolid == InitSolid /\ [][NextSolid]_vars

(***************************************************************************)
(* SpecGrid: Room::create_grid on rooms drawn from bounded sets            *)
(***************************************************************************)
InitGrid ==
    /\ data = NewIslandData
    /\ poisoned = FALSE
    /\ last = NoCall
    /\ calls = 0
    /\ adj = AdjIdle
    /\ hist = NoHistory
    /\ mem = NewIslandData
    /\ mutex = Unlocked
    /\ frames = [t \in Threads |-> IdleFrame]
    /\ wizard = NewWizard
    /\ \E room \in GridRooms : grid = [GridIdle EXCEPT !.room = room]

\* room.create_grid()
CreateGridCall ==
    /\ ~grid.done
    /\ grid' = [grid EXCEPT !.done = TRUE, !.res = create_grid(grid.room)]
    /\ UNCHANGED << data, poisoned, last, calls, adj, hist, wizard, mem, mutex, frames >>

NextGrid == CreateGridCall

SpecGrid == InitGrid /\ [][NextGrid]_vars

(***************************************************************************)
(* SpecWizard: IslandMultiplayerWizard (networking.rs).  ready, process    *)
(* and the button handlers run on the engine's main thread, one at a time; *)
(* every task spawned on the runtime runs beside them, one await at a      *)
(* time.  The transport is external: each of its awaits succeeds or fails. *)
(***************************************************************************)
\* button presses explored
MaxPresses == 2

\* tokio::sync::mpsc::channel(10_000)
ChannelCapacity == 10000

Message(text, from) == [kind |-> "Message", text |-> text, from |-> from]
Error(text, from) == [kind |-> "Error", text |-> text, from |-> from]

\* the message of the Error a task sends when the await it stands at fails
FailureText(kind, at) ==
    CASE at = "veilid_new" -> "Veilid init failed"
      [] at = "require_attachment" -> "Veilid attachment failed"
      [] at = "socket_new" ->
            IF kind = "host" THEN "Socket bind failed" ELSE "Socket init failed"
      [] at = "send_to" -> "Send failed"

\* the statement after the await, when it succeeds
AfterAwait(kind, at) ==
    CASE at = "veilid_new" -> "require_attachment"
      [] at = "require_attachment" -> "socket_new"
      [] at = "socket_new" -> "send_message"
      [] at = "send_to" -> "recv_loop"

\* set_status(text, is_ok)
set_status(w, text, is_ok) ==
    IF is_ok THEN [w EXCEPT !.status_ok = text, !.status_fail = ""]
    ELSE [w EXCEPT !.status_ok = "", !.status_fail = text]

\* TokioRuntime::spawn(async move { .. }): the task stands at Veilid::new()
Spawned(w, kind) ==
    [w EXCEPT !.tasks = Append(@, [kind |-> kind, at |-> "veilid_new", failure |-> ""]),
              !.socket_handle = Len(w.tasks) + 1]

WizardFrame == << data, poisoned, last, calls, adj, hist, grid, mem, mutex, frames >>

\* the tasks spawned so far
Spawns == Len(wizard.tasks)

\* IPanel::ready
Ready ==
    /\ ~wizard.ready
    /\ wizard' = [wizard EXCEPT !.ready = TRUE]
    /\ UNCHANGED WizardFrame

\* on_host_pressed; a disabled button emits no `pressed`
OnHostPressed ==
    /\ wizard.ready
    /\ ~wizard.host_disabled
    /\ Spawns < MaxPresses
    /\ wizard' = set_status([Spawned(wizard, "host") EXCEPT
                                !.host_disabled = TRUE, !.join_disabled = TRUE],
                            "Establishing connection...", TRUE)
    /\ UNCHANGED WizardFrame

\* on_join_pressed: the address parses or it does not
OnJoinPressed ==
    /\ wizard.ready
    /\ ~wizard.join_disabled
    /\ Spawns < MaxPresses
    /\ \E parsed \in BOOLEAN :
        wizard' = IF ~parsed
                  THEN set_status(wizard, "Invalid DHT address.", FALSE)
                  ELSE set_status([Spawned(wizard, "join") EXCEPT
                                      !.host_disabled = TRUE, !.join_disabled = TRUE],
                                  "Connecting...", TRUE)
    /\ UNCHANGED WizardFrame

\* process with an event waiting: try_recv takes the oldest one
Process ==
    /\ wizard.ready
    /\ wizard.rx /= << >>
    /\ LET message == Head(wizard.rx)
           taken == [wizard EXCEPT !.rx = Tail(@)]
       IN  wizard' =
             IF message.kind = "Message"
             THEN set_status([taken EXCEPT !.dht_address = message.text],
                             message.text, TRUE)
             ELSE [set_status(taken, message.text, FALSE) EXCEPT
                        !.host_disabled = FALSE, !.join_disabled = FALSE]
    /\ UNCHANGED WizardFrame

\* Veilid::new(), require_attachment(), Socket::new(), send_to(): Ok or Err
TaskAwait(i) ==
    LET task == wizard.tasks[i]
    IN  /\ task.at \in {"veilid_new", "require_attachment", "socket_new", "send_to"}
        /\ \E ok \in BOOLEAN :
            wizard' = [wizard EXCEPT !.tasks[i] =
                IF ok THEN [task EXCEPT !.at = AfterAwait(task.kind, task.at)]
                ELSE [task EXCEPT !.at = "send_error",
                                  !.failure = FailureText(task.kind, task.at)]]
        /\ UNCHANGED WizardFrame

\* tx.send(Message(..)).await: the host then listens, the guest pings first
TaskSendMessage(i) ==
    LET task == wizard.tasks[i]
    IN  /\ task.at = "send_message"
        /\ Len(wizard.rx) < ChannelCapacity
        /\ wizard' = [wizard EXCEPT
                !.rx = Append(@, Message(IF task.kind = "host" THEN "sock.addr()"
                                         ELSE "Connected (sending ping...)", i)),
                !.tasks[i].at = IF task.kind = "host" THEN "recv_loop" ELSE "send_to"]
        /\ UNCHANGED WizardFrame

\* tx.send(Error(..)).await, before the `return` that follows it
TaskSendError(i) ==
    LET task == wizard.tasks[i]
    IN  /\ task.at = "send_error"
        /\ Len(wizard.rx) < ChannelCapacity
        /\ wizard' = [wizard EXCEPT !.rx = Append(@, Error(task.failure, i)),
                                    !.tasks[i].at = "return"]
        /\ UNCHANGED WizardFrame

\* return: the task drops what it holds and ends
TaskReturn(i) ==
    /\ wizard.tasks[i].at = "return"
    /\ wizard' = [wizard EXCEPT !.tasks[i].at = "done"]
    /\ UNCHANGED WizardFrame

\* a task in loop { sock.recv_from().await } logs and never leaves the loop
TaskStep(i) ==
    TaskAwait(i) \/ TaskSendMessage(i) \/ TaskSendError(i) \/ TaskReturn(i)

NextWizard ==
    \/ Ready
    \/ OnHostPressed
    \/ OnJoinPressed
    \/ Process
    \/ \E i \in 1..Spawns : TaskStep(i)

SpecWizard == Init /\ [][NextWizard]_vars

(***************************************************************************)
(* SpecThreads: two threads call the Island at once.  A call runs in the   *)
(* steps of its code: the conversions made before the lock is taken,       *)
(* this.data.lock().unwrap(), the statements made under the guard, and the *)
(* return, which drops the guard.  mem is the memory the steps work on;    *)
(* data is the same container with every call applied whole at the step    *)
(* that gives the lock back, in the order of those steps.                  *)
(***************************************************************************)
ThreadCalls == MaxCalls

SerialVars == << data, poisoned, last, calls, adj, hist, grid, wizard >>

\* the calls the threads make
ThreadCall(op, args, checks) == [op |-> op, args |-> args, checks |-> checks]
ThreadCallArgs ==
    {ThreadCall("load_island_config", << path >>, FALSE) :
        path \in {PathIsland, PathEscape}}
    \cup {ThreadCall("register_room", << PathRoom1, options >>, FALSE) :
            options \in {RoomOptions(LuaFunction("f1"), LuaFunction("f2")),
                         RoomOptions(LuaFunction("f1"), LuaInteger("7"))}}
    \cup {ThreadCall("register_room", << PathMissing, RoomOptions(LuaNil, LuaNil) >>,
                     FALSE)}
    \cup {ThreadCall("register_gltf", << << "character" >>, path >>, FALSE) :
            path \in {PathModel, PathEscape}}
    \cup {ThreadCall("register_gltf", << << "..", "/", "evil" >>, PathModel >>, FALSE)}
    \cup {ThreadCall("register_process_fn", << func >>, FALSE) :
            func \in {LuaFunction("f1"), LuaInteger("7")}}
    \cup {ThreadCall("set_tile_layers", << layers >>, FALSE) : layers \in FewLayerArgs}
    \cup {ThreadCall("get_tile_layers", << >>, FALSE),
          ThreadCall("get_mechanics_island_data", << >>, FALSE)}
    \cup {ThreadCall("rooms_are_adjacent", << 1, 2 >>, checks) : checks \in BOOLEAN}

\* where a call starts: the work it does before it takes the lock, if any
Entry(op) ==
    CASE op = "register_gltf" -> "validate_filename"
      [] op \in {"register_process_fn", "set_tile_layers"} -> "convert"
      [] OTHER -> "lock"

\* the statement after self.data.lock().unwrap()
AfterLock(op) ==
    CASE op \in {"load_island_config", "register_room"} -> "validate_path"
      [] op = "register_gltf" -> "unwrap"
      [] op = "register_process_fn" -> "create_registry_value"
      [] op = "set_tile_layers" -> "assign"
      [] op = "get_tile_layers" -> "clone"
      [] OTHER -> "island_config"

\* each call applied whole
Serial(f) ==
    \/ f.op = "load_island_config" /\ load_island_config(f.args[1])
    \/ f.op = "register_room" /\ register_room(f.args[1], f.args[2])
    \/ f.op = "register_gltf" /\ register_gltf(f.args[1], f.args[2])
    \/ f.op = "register_process_fn" /\ register_process_fn(f.args[1])
    \/ f.op = "set_tile_layers" /\ set_tile_layers(f.args[1])
    \/ f.op = "get_tile_layers" /\ get_tile_layers
    \/ f.op = "get_mechanics_island_data" /\ get_mechanics_island_data
    \/ f.op = "rooms_are_adjacent"
         /\ script_rooms_are_adjacent(f.args[1], f.args[2], f.checks)

At(t, op, label) == frames[t].op = op /\ frames[t].at = label

\* the call of t goes on at `label` with the local `loc`
Goto(t, label, loc) ==
    frames' = [frames EXCEPT ![t].at = label, ![t].loc = loc]

\* the call of t takes the return path with `result`
Leave(t, result) ==
    frames' = [frames EXCEPT ![t].at = "return", ![t].loc = << >>,
                             ![t].result = result]

\* a thread calls a method; the calls begun never exceed the budget
Begin(t) ==
    /\ frames[t].at = "idle"
    /\ calls + Cardinality({u \in Threads : frames[u].at /= "idle" /\ ~frames[u].lin})
          < ThreadCalls
    /\ \E c \in ThreadCallArgs :
          frames' = [frames EXCEPT ![t] =
                        [IdleFrame EXCEPT !.op = c.op, !.args = c.args,
                                          !.checks = c.checks, !.at = Entry(c.op)]]
    /\ UNCHANGED << mem, mutex, SerialVars >>

\* self.data.lock().unwrap(): waits while the mutex is held; on a poisoned
\* mutex lock() returns the guard in an Err and unwrap panics
Lock(t) ==
    /\ frames[t].at = "lock"
    /\ mutex.holder = NoHolder
    /\ mutex' = [mutex EXCEPT !.holder = t]
    /\ frames' = [frames EXCEPT
                    ![t].at = IF mutex.poisoned THEN "return"
                              ELSE AfterLock(frames[t].op),
                    ![t].result = IF mutex.poisoned THEN PoisonPanic ELSE @,
                    ![t].locks = @ + 1]
    /\ UNCHANGED << mem, SerialVars >>

\* a return that drops the guard on the Ok path only
Returns_keeps_guard_on_error(t) ==
    /\ frames[t].at = "return"
    /\ IF frames[t].lin
       THEN /\ frames' = [frames EXCEPT ![t].at = "idle"]
            /\ UNCHANGED << mutex, SerialVars >>
       ELSE /\ CallWithin(ThreadCalls, Serial(frames[t]))
            /\ mutex' = IF mutex.holder = t /\ frames[t].result.kind /= "err"
                        THEN [holder |-> NoHolder,
                              poisoned |-> mutex.poisoned
                                           \/ frames[t].result.kind = "panic"]
                        ELSE mutex
            /\ frames' = [frames EXCEPT ![t].at = "idle", ![t].lin = TRUE,
                                        ![t].serial = last']
    /\ UNCHANGED mem

\* the call returns or unwinds: the guard, if the thread has one, is dropped,
\* and a guard dropped by a panicking thread poisons the mutex
Returns(t) ==
    /\ frames[t].at = "return"
    /\ IF frames[t].lin
       THEN /\ frames' = [frames EXCEPT ![t].at = "idle"]
            /\ UNCHANGED << mutex, SerialVars >>
       ELSE /\ CallWithin(ThreadCalls, Serial(frames[t]))
            /\ mutex' = IF mutex.holder = t
                        THEN [holder |-> NoHolder,
                              poisoned |-> mutex.poisoned
                                           \/ frames[t].result.kind = "panic"]
                        ELSE mutex
            /\ frames' = [frames EXCEPT ![t].at = "idle", ![t].lin = TRUE,
                                        ![t].serial = last']
    /\ UNCHANGED mem

\* validate_path(Path::new(&path), &data.base_path).map_err(..)?
ValidatePath(t) ==
    /\ frames[t].op \in {"load_island_config", "register_room"}
    /\ frames[t].at = "validate_path"
    /\ LET full_path == validate_path(frames[t].args[1], mem.base_path)
       IN  IF full_path.kind = "err"
           THEN Leave(t, Err(full_path.val))
           ELSE Goto(t, "read", << full_path.val >>)
    /\ UNCHANGED << mem, mutex, SerialVars >>

\* load_island_config: read_to_string and ron::from_str
load_island_config_read(t) ==
    /\ At(t, "load_island_config", "read")
    /\ LET path == frames[t].args[1]
           content == read_to_string(frames[t].loc[1])
       IN  IF content.kind = "err"
           THEN Leave(t, Err(<< "Failed to read island config from " >> \o path
                             \o << ": ", content.val >>))
           ELSE LET island == from_str("Island", content.val)
                IN  IF island.kind = "err"
                    THEN Leave(t, Err(<< "Failed to parse island config: ",
                                         island.val >>))
                    ELSE Goto(t, "assign", << island.val >>)
    /\ UNCHANGED << mem, mutex, SerialVars >>

\* data.island_config = Some(island)
load_island_config_assign(t) ==
    /\ At(t, "load_island_config", "assign")
    /\ mem' = [mem EXCEPT !.island_config = Some(frames[t].loc[1])]
    /\ Leave(t, Ok(Unit))
    /\ UNCHANGED << mutex, SerialVars >>

\* register_room: read_to_string and ron::from_str
register_room_read(t) ==
    /\ At(t, "register_room", "read")
    /\ LET path == frames[t].args[1]
           room_content == read_to_string(frames[t].loc[1])
       IN  IF room_content.kind = "err"
           THEN Leave(t, Err(<< "Failed to read room file " >> \o path
                             \o << ": ", room_content.val >>))
           ELSE LET room == from_str("Room", room_content.val)
                IN  IF room.kind = "err"
                    THEN Leave(t, Err(<< "Failed to parse room file " >> \o path
                                      \o << ": ", room.val >>))
                    ELSE Goto(t, "push", << room.val >>)
    /\ UNCHANGED << mem, mutex, SerialVars >>

\* register_room that gives the lock back once the room is pushed
register_room_push_unlocks(t) ==
    /\ At(t, "register_room", "push")
    /\ mem' = [mem EXCEPT !.rooms = Append(@, frames[t].loc[1])]
    /\ mutex' = [mutex EXCEPT !.holder = NoHolder]
    /\ Goto(t, "process", << frames[t].loc[1].room_id >>)
    /\ UNCHANGED SerialVars

\* let room_id = room.room_id; data.rooms.push(room)
register_room_push(t) ==
    /\ At(t, "register_room", "push")
    /\ mem' = [mem EXCEPT !.rooms = Append(@, frames[t].loc[1])]
    /\ Goto(t, "process", << frames[t].loc[1].room_id >>)
    /\ UNCHANGED << mutex, SerialVars >>

\* if let Some(process_fn) = options.get("process")? { insert(room_id, key) }
register_room_process(t) ==
    /\ At(t, "register_room", "process")
    /\ LET room_id == frames[t].loc[1]
           process_fn == GetOptionFunction(frames[t].args[2], "process")
       IN  IF process_fn.kind = "err"
           THEN Leave(t, process_fn) /\ UNCHANGED mem
           ELSE /\ Goto(t, "physics_process", << room_id >>)
                /\ mem' = IF IsSome(process_fn.val)
                          THEN [mem EXCEPT !.room_process_fns =
                                  MapInsert(@, room_id,
                                      create_registry_value(Unwrap(process_fn.val)))]
                          ELSE mem
    /\ UNCHANGED << mutex, SerialVars >>

\* the same for options.get("physics_process")?, then Ok(())
register_room_physics_process(t) ==
    /\ At(t, "register_room", "physics_process")
    /\ LET room_id == frames[t].loc[1]
           physics_process_fn == GetOptionFunction(frames[t].args[2], "physics_process")
       IN  IF physics_process_fn.kind = "err"
           THEN Leave(t, physics_process_fn) /\ UNCHANGED mem
           ELSE /\ Leave(t, Ok(Unit))
                /\ mem' = IF IsSome(physics_process_fn.val)
                          THEN [mem EXCEPT !.room_physics_process_fns =
                                  MapInsert(@, room_id,
                                      create_registry_value(
                                          Unwrap(physics_process_fn.val)))]
                          ELSE mem
    /\ UNCHANGED << mutex, SerialVars >>

\* register_gltf: validate_filename(&name).map_err(..)?, before the lock
register_gltf_validate_filename(t) ==
    /\ At(t, "register_gltf", "validate_filename")
    /\ LET checked == validate_filename(frames[t].args[1])
       IN  IF checked.kind = "err"
           THEN Leave(t, Err(<< "Invalid GLTF name: " >> \o checked.val))
           ELSE Goto(t, "lock", << >>)
    /\ UNCHANGED << mem, mutex, SerialVars >>

\* let fullpath = validate_path(..).unwrap(): a rejected path panics
register_gltf_unwrap(t) ==
    /\ At(t, "register_gltf", "unwrap")
    /\ LET fullpath == validate_path(frames[t].args[2], mem.base_path)
       IN  IF fullpath.kind = "err"
           THEN Leave(t, Panic(<< "called Result::unwrap() on an Err value: " >>
                               \o fullpath.val))
           ELSE Goto(t, "insert", << fullpath.val >>)
    /\ UNCHANGED << mem, mutex, SerialVars >>

\* data.gltf_registry.insert(name, fullpath)
register_gltf_insert(t) ==
    /\ At(t, "register_gltf", "insert")
    /\ mem' = [mem EXCEPT !.gltf_registry =
                  MapInsert(@, frames[t].args[1], frames[t].loc[1])]
    /\ Leave(t, Ok(Unit))
    /\ UNCHANGED << mutex, SerialVars >>

\* the conversion of the arguments, before the method body runs:
\* func: Function of register_process_fn
register_process_fn_convert(t) ==
    /\ At(t, "register_process_fn", "convert")
    /\ LET func == frames[t].args[1]
       IN  IF func.t /= "function"
           THEN Leave(t, Err(<< "error converting Lua ", func.t, " to function" >>))
           ELSE Goto(t, "lock", << >>)
    /\ UNCHANGED << mem, mutex, SerialVars >>

\* let key = lua.create_registry_value(func)?; data.process_fn = Some(key)
register_process_fn_create_registry_value(t) ==
    /\ At(t, "register_process_fn", "create_registry_value")
    /\ mem' = [mem EXCEPT
                 !.process_fn = Some(create_registry_value(frames[t].args[1].v))]
    /\ Leave(t, Ok(Unit))
    /\ UNCHANGED << mutex, SerialVars >>

\* set_tile_layers: the loop over layers.sequence_values::<String>()
set_tile_layers_convert(t) ==
    /\ At(t, "set_tile_layers", "convert")
    /\ LET layer_vec == PushAll(frames[t].args[1], << >>)
       IN  IF layer_vec.kind = "err"
           THEN Leave(t, layer_vec)
           ELSE Goto(t, "lock", << layer_vec.val >>)
    /\ UNCHANGED << mem, mutex, SerialVars >>

\* this.data.lock().unwrap().tile_layers = layer_vec
set_tile_layers_assign(t) ==
    /\ At(t, "set_tile_layers", "assign")
    /\ mem' = [mem EXCEPT !.tile_layers = frames[t].loc[1]]
    /\ Leave(t, Ok(Unit))
    /\ UNCHANGED << mutex, SerialVars >>

\* self.data.lock().unwrap().tile_layers.clone()
get_tile_layers_clone(t) ==
    /\ At(t, "get_tile_layers", "clone")
    /\ Leave(t, Ok(mem.tile_layers))
    /\ UNCHANGED << mem, mutex, SerialVars >>

\* Island::get_mechanics_island_data hands `projection` to its caller: the
\* host, or the script's rooms_are_adjacent
Projected(t, projection) ==
    IF frames[t].op = "get_mechanics_island_data"
    THEN Leave(t, Ok(projection))
    ELSE Goto(t, "unlock", projection)

\* data.island_config.as_ref()
get_mechanics_island_data_island_config(t) ==
    /\ frames[t].op \in {"get_mechanics_island_data", "rooms_are_adjacent"}
    /\ frames[t].at = "island_config"
    /\ IF IsSome(mem.island_config)
       THEN Goto(t, "rooms", << Unwrap(mem.island_config) >>)
       ELSE Projected(t, None)
    /\ UNCHANGED << mem, mutex, SerialVars >>

\* .map(|config| MechanicsIslandData::new(config.clone(), data.rooms.clone()))
get_mechanics_island_data_rooms(t) ==
    /\ frames[t].op \in {"get_mechanics_island_data", "rooms_are_adjacent"}
    /\ frames[t].at = "rooms"
    /\ Projected(t, Some(IslandDataNew(frames[t].loc[1], mem.rooms)))
    /\ UNCHANGED << mem, mutex, SerialVars >>

\* rooms_are_adjacent: get_mechanics_island_data returns and drops its guard
rooms_are_adjacent_unlock(t) ==
    /\ At(t, "rooms_are_adjacent", "unlock")
    /\ CallWithin(ThreadCalls, Serial(frames[t]))
    /\ mutex' = [mutex EXCEPT !.holder = NoHolder]
    /\ frames' = [frames EXCEPT ![t].at = "compute", ![t].lin = TRUE,
                                ![t].serial = last']
    /\ UNCHANGED mem

\* .ok_or_else(..)?; Ok(mechanics_data.rooms_are_adjacent(room_a_id, room_b_id))
rooms_are_adjacent_compute(t) ==
    /\ At(t, "rooms_are_adjacent", "compute")
    /\ LET mechanics_data == frames[t].loc
       IN  IF ~IsSome(mechanics_data)
           THEN Leave(t, Err(<< "Island config not loaded" >>))
           ELSE LET r == rooms_are_adjacent(Unwrap(mechanics_data),
                                            frames[t].args[1], frames[t].args[2],
                                            frames[t].checks)
                IN  IF r.panic THEN Leave(t, Panic(<< "attempt to add with overflow" >>))
                    ELSE Leave(t, Ok(r.value))
    /\ UNCHANGED << mem, mutex, SerialVars >>

\* the next step of the call thread t is in
Advance(t) ==
    \/ Lock(t)
    \/ Returns(t)
    \/ ValidatePath(t)
    \/ load_island_config_read(t)
    \/ load_island_config_assign(t)
    \/ register_room_read(t)
    \/ register_room_push(t)
    \/ register_room_process(t)
    \/ register_room_physics_process(t)
    \/ register_gltf_validate_filename(t)
    \/ register_gltf_unwrap(t)
    \/ register_gltf_insert(t)
    \/ register_process_fn_convert(t)
    \/ register_process_fn_create_registry_value(t)
    \/ set_tile_layers_convert(t)
    \/ set_tile_layers_assign(t)
    \/ get_tile_layers_clone(t)
    \/ get_mechanics_island_data_island_config(t)
    \/ get_mechanics_island_data_rooms(t)
    \/ rooms_are_adjacent_unlock(t)
    \/ rooms_are_adjacent_compute(t)

NextThreads == \E t \in Threads : Begin(t) \/ Advance(t)

SpecThreads == Init /\ [][NextThreads]_vars

(***************************************************************************)
(* Properties                                                              *)
(***************************************************************************)
\* the projection a host builds over the loaded rooms
Projection == IslandDataNew(IslandA, data.rooms)

LoadedIds == {data.rooms[i].room_id : i \in 1..Len(data.rooms)}
False == [panic |-> FALSE, value |-> FALSE]

\* the last call was the script method rooms_are_adjacent
AdjacencyQueried == last.op = "rooms_are_adjacent"
Answered(b) == last.result.kind = "ok" /\ last.result.val = b

\* C1: for every list of loaded rooms (duplicate ids included) and all ids a, b,
\* rooms_are_adjacent(a, b) has the same outcome as rooms_are_adjacent(b, a).
C1_Symmetric ==
    \A a \in RoomIdArgs, b \in RoomIdArgs, checks \in BOOLEAN :
        rooms_are_adjacent(Projection, a, b, checks)
            = rooms_are_adjacent(Projection, b, a, checks)

\* a script asked about two different loaded rooms and was told "adjacent"
C1_Witness ==
    /\ AdjacencyQueried
    /\ Answered(TRUE)
    /\ last.args[1] /= last.args[2]

\* C2: rooms_are_adjacent(a, a) is false for every id a, whatever the geometry of
\* the rooms with that id, loaded or not, shared by several rooms or not.
C2_NeverSelfAdjacent ==
    \A a \in RoomIdArgs, checks \in BOOLEAN :
        rooms_are_adjacent(Projection, a, a, checks) = False

\* a script asked rooms_are_adjacent(a, a) for an id that two loaded rooms share
C2_Witness ==
    /\ AdjacencyQueried
    /\ last.args[1] = last.args[2]
    /\ Answered(FALSE)
    /\ \E i, j \in 1..Len(data.rooms) :
        /\ i /= j
        /\ data.rooms[i].room_id = last.args[1]
        /\ data.rooms[j].room_id = last.args[1]

(***************************************************************************)
(* The face-sharing relation of the design, on unbounded integers          *)
(***************************************************************************)
Axes == {"x", "y", "z"}
Lo(r, k) == CASE k = "x" -> r.pos_x [] k = "y" -> r.pos_y [] k = "z" -> r.pos_z
Extent(r, k) ==
    CASE k = "x" -> r.extent_x [] k = "y" -> r.extent_y [] k = "z" -> r.extent_z
Hi(r, k) == Lo(r, k) + Extent(r, k)
Min2(m, n) == IF m <= n THEN m ELSE n
Max2(m, n) == IF m >= n THEN m ELSE n

TouchOn(a, b, k) == Hi(a, k) = Lo(b, k) \/ Hi(b, k) = Lo(a, k)
\* the intersection of the projections on axis k has positive length
PositiveOverlapOn(a, b, k) ==
    Min2(Hi(a, k), Hi(b, k)) - Max2(Lo(a, k), Lo(b, k)) > 0
SharesFace(a, b) ==
    \E k \in Axes :
        /\ TouchOn(a, b, k)
        /\ \A j \in Axes \ {k} : PositiveOverlapOn(a, b, j)
\* a positive gap separates the rooms on axis k
GapOn(a, b, k) == Hi(a, k) < Lo(b, k) \/ Hi(b, k) < Lo(a, k)

\* C3: for all rooms a, b (extent 0 allowed), Room::are_adjacent(a, b) is true if
\* and only if the boxes touch exactly on one axis and their projections on both
\* other axes intersect in an interval of positive length.
C3_FaceSharing ==
    adj.done =>
        /\ ~adj.res.panic
        /\ adj.res.value = SharesFace(adj.a, adj.b)

\* C4: two rooms separated by a positive gap on some axis are never reported
\* adjacent by Room::are_adjacent.
C4_GapNeverAdjacent ==
    (adj.done /\ \E k \in Axes : GapOn(adj.a, adj.b, k)) =>
        ~(~adj.res.panic /\ adj.res.value)

\* C5: once an Island config is loaded, the script method rooms_are_adjacent(a, b)
\* returns false, not an error, whenever a or b is the id of no loaded room.
C5_UnknownRoomIsFalse ==
    (/\ AdjacencyQueried
     /\ IsSome(data.island_config)
     /\ (last.args[1] \notin LoadedIds \/ last.args[2] \notin LoadedIds))
        => Answered(FALSE)

\* C6: while no load_island_config has succeeded, the script method
\* rooms_are_adjacent returns a runtime error and get_mechanics_island_data
\* returns None; after a load has succeeded neither happens again.
ReturnedNone == last.result.kind = "ok" /\ last.result.val = None

C6_ConfigPrecondition ==
    /\ (AdjacencyQueried /\ ~IsSome(data.island_config))
            => last.result.kind = "err"
    /\ (last.op = "get_mechanics_island_data" /\ ~IsSome(data.island_config))
            => ReturnedNone
    /\ (AdjacencyQueried /\ IsSome(data.island_config))
            => last.result.kind /= "err"
    /\ (last.op = "get_mechanics_island_data" /\ IsSome(data.island_config))
            => ~ReturnedNone

\* tile maps and looping flags removed from every room of a list
Geometry(room) ==
    [room EXCEPT !.tiles = {}, !.looping_x = FALSE, !.looping_y = FALSE,
                 !.looping_z = FALSE]
GeometryOnly(room_list) == [i \in 1..Len(room_list) |-> Geometry(room_list[i])]

\* C7: the answer of rooms_are_adjacent depends only on the ids, positions and
\* extents of the loaded rooms: it is the answer for the same rooms without their
\* tile maps (doors included) and looping flags.
C7_GeometryOnly ==
    \A a \in RoomIdArgs, b \in RoomIdArgs, checks \in BOOLEAN :
        rooms_are_adjacent(Projection, a, b, checks)
            = rooms_are_adjacent(IslandDataNew(IslandA, GeometryOnly(data.rooms)),
                                 a, b, checks)

\* a script asked about rooms a, b where a holds a door to b, and was told "no"
C7_Witness ==
    /\ AdjacencyQueried
    /\ Answered(FALSE)
    /\ LET room_a == FindRoom(data.rooms, last.args[1])
       IN  /\ IsSome(room_a)
           /\ last.args[2] \in LoadedIds
           /\ \E t \in Unwrap(room_a).tiles :
                t[2].tag = "Door" /\ t[2].target = last.args[2]

(***************************************************************************)
(* Properties of the loading operations                                    *)
(***************************************************************************)
LoadingOps ==
    {"load_island_config", "load_entity_spawn", "register_room", "register_gltf"}

\* the path argument of a call of a loading operation
PathArg(call) == IF call.op = "register_gltf" THEN call.args[2] ELSE call.args[1]

\* the state of the container: the data and the state of its mutex
Container == << data, poisoned >>

\* C8: when the path argument of a loading operation fails validate_path, the
\* operation fails, reads no file and leaves the container unchanged.
C8_RejectedPathNoEffect ==
    [][(/\ last'.op \in LoadingOps
        /\ validate_path(PathArg(last'), data.base_path).kind = "err")
          => (/\ last'.result.kind /= "ok"
              /\ last'.reads = << >>
              /\ Container' = Container)]_vars

\* the call reached a validator and the validator rejected its argument
ValidatorFailed(call, was_poisoned, base) ==
    IF call.op = "register_gltf"
    THEN \/ validate_filename(call.args[1]).kind = "err"
         \/ ~was_poisoned /\ validate_path(call.args[2], base).kind = "err"
    ELSE ~was_poisoned /\ validate_path(call.args[1], base).kind = "err"

\* C9: every failure of validate_path or validate_filename inside a loading
\* operation is returned to the script as a runtime error, never as a panic.
C9_ValidationErrorsReturned ==
    [][(/\ last'.op \in LoadingOps
        /\ ValidatorFailed(last', poisoned, data.base_path))
          => last'.result.kind = "err"]_vars

\* a is a contiguous part of msg
Contains(msg, part) ==
    \E i \in 0..(Len(msg) - Len(part)) :
        SubSeq(msg, i + 1, i + Len(part)) = part

\* the step at which load_island_config(path) fails: "validate", "read", "parse",
\* or "none"
FailingStep(path, base) ==
    LET full_path == validate_path(path, base)
    IN  IF full_path.kind = "err" THEN "validate"
        ELSE LET content == read_to_string(full_path.val)
             IN  IF content.kind = "err" THEN "read"
                 ELSE IF content.val.ron /= "Island" THEN "parse"
                 ELSE "none"

\* C10: when load_island_config fails at path validation, at the file read or at
\* deserialization, it returns an error and the container (the loaded config
\* included) is as before the call; after a failed read the message holds the
\* requested path.
C10_FailedLoadNoEffect ==
    [][(/\ last'.op = "load_island_config"
        /\ ~poisoned
        /\ FailingStep(last'.args[1], data.base_path) /= "none")
          => (/\ last'.result.kind = "err"
              /\ Container' = Container
              /\ FailingStep(last'.args[1], data.base_path) = "read"
                    => Contains(last'.result.val, last'.args[1]))]_vars

\* load_island_config failed to read a file while a config was loaded
C10_Witness ==
    /\ last.op = "load_island_config"
    /\ last.result.kind = "err"
    /\ FailingStep(last.args[1], data.base_path) = "read"
    /\ IsSome(data.island_config)


(***************************************************************************)
(* Island config                                                           *)
(***************************************************************************)
\* the Island record the file at `path` holds
IslandAt(path) ==
    from_str("Island", read_to_string(validate_path(path, BasePath).val).val).val

\* C11: the Island config is the record deserialized by the most recent
\* successful load_island_config, whatever was loaded before it and whatever
\* other operations ran since; it is absent iff no load has succeeded.
C11_ConfigIsLatestLoad ==
    data.island_config =
        IF hist.islands = << >> THEN None
        ELSE Some(IslandAt(hist.islands[Len(hist.islands)]))

\* a second config replaced the first, and another operation ran after it
C11_Witness ==
    /\ Len(hist.islands) = 2
    /\ IslandAt(hist.islands[1]) /= IslandAt(hist.islands[2])
    /\ last.op /= "load_island_config"
    /\ data.island_config = Some(IslandAt(hist.islands[2]))



(***************************************************************************)
(* Layer lists                                                             *)
(***************************************************************************)
\* the layer names a script passed: each element as text
LayerNames(layers) == [i \in DOMAIN layers |-> layers[i].v]

\* what the latest successful set call of a log passed, empty if there was none
LatestSet(log) == IF log = << >> THEN << >> ELSE LayerNames(log[Len(log)])

\* C12: get_tile_layers() (resp. get_entity_layers()) returns exactly the
\* sequence passed to the most recent successful set_tile_layers (resp.
\* set_entity_layers), in the same order, and the empty list before any.
C12_LayersAreLatestSet ==
    /\ last.op = "get_tile_layers" => last.result = Ok(LatestSet(hist.tile_layers))
    /\ last.op = "get_entity_layers" =>
            last.result = Ok(LatestSet(hist.entity_layers))



(***************************************************************************)
(* Field registries                                                        *)
(***************************************************************************)
\* the registration a successful call (field_name, field_type, options) makes
Registered(entry) ==
    FieldRegistration(entry[1], entry[2], parse_field_options(entry[3]).val)

\* the registry a log of successful calls builds: per kind, one registration
\* per call, in call order
RegistryOf(log) ==
    [kind \in DOMAIN log |-> [i \in DOMAIN log[kind] |-> Registered(log[kind][i])]]

\* C13: the sequence stored for each kind lists that kind's successful
\* registrations in call order, one entry per call, repeated field names
\* included; a kind has a sequence iff a registration for it succeeded.
C13_RegistryIsCallLog ==
    /\ data.tile_fields = RegistryOf(hist.tile_fields)
    /\ data.entity_fields = RegistryOf(hist.entity_fields)

\* a kind holds three registrations, the first and the last under one name
C13_Witness ==
    \E kind \in DOMAIN data.entity_fields :
        LET fields == data.entity_fields[kind]
        IN  /\ Len(fields) = 3
            /\ fields[1].field_name = fields[3].field_name
            /\ fields[1].field_name /= fields[2].field_name



\* the last call registered a field
FieldRegistered ==
    /\ last.op \in {"register_tile_field", "register_entity_field"}
    /\ last.result.kind = "ok"

\* the registration the last call stored: the last one of its kind
LastField ==
    LET registry == IF last.op = "register_tile_field" THEN data.tile_fields
                    ELSE data.entity_fields
        fields == registry[last.args[1]]
    IN  fields[Len(fields)]

\* the options table the last call passed
GivenOptions == last.args[4]

\* a scalar script value under the tag of its type
Tagged(v) ==
    CASE v.t = "integer" -> DefaultInt(v.v)
      [] v.t = "number" -> DefaultFloat(v.v)
      [] v.t = "string" -> DefaultString(v.v)
      [] v.t = "boolean" -> DefaultBool(v.v)

ScalarTypes == {"integer", "number", "string", "boolean"}

\* the first call of a session is
\* register_tile_field("lava_tile", "damage_on_touch", "int", {default = 10})
FreshLavaCall ==
    /\ calls = 1
    /\ last.op = "register_tile_field"
    /\ last.args = << "lava_tile", "damage_on_touch", "int",
                      [NoOptions EXCEPT !.default = LuaInteger("10")] >>

\* one field under "lava_tile": damage_on_touch, int, default Int(10)
LavaRegistry ==
    [kind \in {"lava_tile"} |->
        << [field_name |-> "damage_on_touch",
            field_type |-> "int",
            options |-> [default |-> Some(DefaultInt("10")),
                         min |-> None, max |-> None, values |-> None,
                         keys |-> None, value_type |-> None,
                         item_type |-> None, schema |-> None]] >>]

\* C14 as stated: the fresh lava_tile registration leaves exactly that one
\* field, and every integer, float, string or boolean default is stored under
\* the tag of its type with the same value.
C14_DefaultStoredAsGiven ==
    /\ FreshLavaCall => data.tile_fields = LavaRegistry
    /\ FieldRegistered /\ GivenOptions["default"].t \in ScalarTypes =>
            LastField.options.default = Some(Tagged(GivenOptions["default"]))

\* C14 amended: the same, for a string default that is valid UTF-8; a string
\* that is not valid UTF-8 is recorded as no default.
C14_Utf8DefaultStoredAsGiven ==
    /\ FreshLavaCall => data.tile_fields = LavaRegistry
    /\ FieldRegistered /\ GivenOptions["default"].t \in ScalarTypes =>
            LastField.options.default =
                IF GivenOptions["default"].t = "string"
                   /\ GivenOptions["default"].v \in InvalidUtf8
                THEN None
                ELSE Some(Tagged(GivenOptions["default"]))

\* the fresh lava_tile registration has stored its integer default
C14_Witness ==
    /\ FreshLavaCall
    /\ FieldRegistered
    /\ LastField.options.default = Some(DefaultInt("10"))



\* the last call was a field registration, successful or not
FieldCalled == last.op \in {"register_tile_field", "register_entity_field"}

\* the script types each recognized option is meant to have
ExpectedTypes(key) ==
    CASE key = "default" -> ScalarTypes
      [] key \in {"min", "max"} -> {"integer"}
      [] key = "values" -> {"table", "string"}
      [] key \in {"keys", "item_type"} -> {"string"}
      [] key = "schema" -> {"table"}

RecognizedKeys == {"default", "min", "max", "values", "keys", "item_type", "schema"}

\* the option is present with a value of another type than its key expects
Mistyped(options, key) ==
    /\ options[key].t /= "nil"
    /\ options[key].t \notin ExpectedTypes(key)

\* nothing is recorded for the option (`values` feeds values and value_type)
RecordedAbsent(field_options, key) ==
    IF key = "values"
    THEN field_options.values = None /\ field_options.value_type = None
    ELSE field_options[key] = None

Unconvertible(options, key) ==
    LET v == options[key]
    IN  /\ v.t /= "nil"
        /\ CASE key \in {"min", "max"} ->
                    ~(v.t = "integer" \/ (v.t = "string" /\ v.v \in NumericStrings))
             [] key \in {"keys", "item_type"} ->
                    ~((v.t = "string" /\ v.v \notin InvalidUtf8)
                      \/ v.t \in {"integer", "number"})
             [] key = "schema" -> v.t /= "table"

ConvertedKeys == {"min", "max", "keys", "item_type", "schema"}

C16_FailedConversionNoRegistration ==
    [][(/\ last'.op \in {"register_tile_field", "register_entity_field"}
        /\ \E key \in ConvertedKeys : Unconvertible(last'.args[4], key))
          => (/\ last'.result.kind = "err"
              /\ data'.tile_fields = data.tile_fields
              /\ data'.entity_fields = data.entity_fields)]_vars

\* register_tile_field failed on an option for a kind that has no field, while
\* another kind has one
C16_Witness ==
    /\ last.op = "register_tile_field"
    /\ last.result.kind = "err"
    /\ \E key \in ConvertedKeys : Unconvertible(GivenOptions, key)
    /\ last.args[1] \notin DOMAIN data.tile_fields
    /\ data.tile_fields /= EmptyMap



(***************************************************************************)
(* Rooms and spawns                                                        *)
(***************************************************************************)
\* C17: the spawn list holds one entry per successful load_entity_spawn (the
\* same file loaded twice gives two), and get_entity_spawn_count() returns the
\* number of load_entity_spawn calls that have succeeded so far.
C17_SpawnCountIsSuccessCount ==
    /\ Len(data.entity_spawns) = hist.spawns
    /\ last.op = "get_entity_spawn_count" => last.result = Ok(hist.spawns)



\* the record of type `type` the file at `path` holds, or why there is none
FileRecord(type, path) ==
    LET full_path == validate_path(path, BasePath)
    IN  IF full_path.kind = "err" THEN full_path
        ELSE LET content == read_to_string(full_path.val)
             IN  IF content.kind = "err" THEN content
                 ELSE from_str(type, content.val)

\* both callback options are a function or left out
OptionsAreCallbacks(options) ==
    \A key \in {"process", "physics_process"} : options[key].t \in {"nil", "function"}

\* C18: register_room of a readable room file with well-formed options is
\* never refused with an error, whether or not a loaded room has the same id,
\* and each successful register_room appends the room of the file as a new
\* last entry: the room count grows by one, nothing is merged.
C18_DuplicateIdsNotRejected ==
    [][last'.op = "register_room"
        => /\ (/\ FileRecord("Room", last'.args[1]).kind = "ok"
               /\ OptionsAreCallbacks(last'.args[2]))
                 => last'.result.kind /= "err"
           /\ last'.result.kind = "ok"
                 => /\ data'.rooms =
                          Append(data.rooms, FileRecord("Room", last'.args[1]).val)
                    /\ Len(data'.rooms) = Len(data.rooms) + 1]_vars

\* a successful register_room has added a second room with the id of the first
C18_Witness ==
    /\ last.op = "register_room"
    /\ last.result.kind = "ok"
    /\ Len(data.rooms) = 2
    /\ data.rooms[1].room_id = data.rooms[2].room_id
    /\ data.rooms[1] /= data.rooms[2]

\* s is a prefix of t
IsPrefix(s, t) == Len(s) <= Len(t) /\ SubSeq(t, 1, Len(s)) = s

\* C19: at every step the room list and the spawn list of the state before the
\* step are prefixes of the lists after it: entries are only ever appended.
C19_AppendOnly ==
    [][/\ IsPrefix(data.rooms, data'.rooms)
       /\ IsPrefix(data.entity_spawns, data'.entity_spawns)]_vars

\* both lists have grown, the spawn list twice
C19_Witness ==
    /\ Len(data.rooms) = 1
    /\ Len(data.entity_spawns) = 2
    /\ data.entity_spawns[1] /= data.entity_spawns[2]
    /\ last.op = "load_entity_spawn"

\* the callback map after a registration for room_id whose option is `value`
WithCallback(fns, room_id, value) ==
    IF value.t = "function"
    THEN [id \in DOMAIN fns \cup {room_id} |->
            IF id = room_id THEN [registry_key |-> value.v] ELSE fns[id]]
    ELSE fns

\* C20: a successful register_room(path, options) records the `process`
\* callback under the id of the loaded room iff options supplies it, and the
\* `physics_process` callback iff options supplies that; a map whose option is
\* not supplied stays as it is.
C20_CallbacksRecordedIffSupplied ==
    [][(last'.op = "register_room" /\ last'.result.kind = "ok")
        => LET room_id == FileRecord("Room", last'.args[1]).val.room_id
               options == last'.args[2]
           IN  /\ data'.room_process_fns =
                     WithCallback(data.room_process_fns, room_id, options["process"])
               /\ data'.room_physics_process_fns =
                     WithCallback(data.room_physics_process_fns, room_id,
                                  options["physics_process"])]_vars

\* a room was registered with `process` only, after one registered with none
C20_Witness ==
    /\ last.op = "register_room"
    /\ last.result.kind = "ok"
    /\ last.args[2]["process"].t = "function"
    /\ last.args[2]["physics_process"].t = "nil"
    /\ Len(data.rooms) = 2
    /\ DOMAIN data.room_process_fns = {data.rooms[2].room_id}
    /\ data.room_physics_process_fns = EmptyMap

(***************************************************************************)
(* Asset registry                                                          *)
(***************************************************************************)
\* the names the successful register_gltf calls of `log` were given
NamesOf(log) == {log[i][1] : i \in 1..Len(log)}

\* the path the most recent call of `log` for `name` was given
LatestPath(log, name) ==
    LET given == {i \in 1..Len(log) : log[i][1] = name}
    IN  log[CHOOSE i \in given : \A j \in given : j <= i][2]

\* a name with a path separator or a parent-directory run in it
UnsafeName(name) == \E i \in 1..Len(name) : name[i] \in {"/", "\\", ".."}

\* C21: register_gltf with an unsafe name returns a runtime error whatever its
\* path is; the asset registry has exactly one entry for each name a
\* successful register_gltf was given, and nothing else, and the entry is the
\* path of the most recent successful call with that name, resolved against
\* the base directory.
C21_RegistryIsLatestGltf ==
    /\ (last.op = "register_gltf" /\ UnsafeName(last.args[1]))
          => last.result.kind = "err"
    /\ DOMAIN data.gltf_registry = NamesOf(hist.gltf)
    /\ \A name \in NamesOf(hist.gltf) :
          data.gltf_registry[name] = BasePath \o LatestPath(hist.gltf, name)

\* one name was registered twice with two paths, and the second path is kept
C21_Witness ==
    /\ Len(hist.gltf) = 2
    /\ hist.gltf[1][1] = hist.gltf[2][1]
    /\ hist.gltf[1][2] /= hist.gltf[2][2]
    /\ data.gltf_registry[hist.gltf[2][1]] = BasePath \o hist.gltf[2][2]

(***************************************************************************)
(* Global callbacks                                                        *)
(***************************************************************************)
\* the slot that holds the callback `value`
Slot(value) == << [registry_key |-> value.v] >>

\* C22: each global slot holds at most one callback.  A successful
\* register_process_fn puts its callback in the process slot and changes
\* nothing else of the container, a successful register_physics_process_fn
\* does the same with the physics slot, and no other call (register_room with
\* or without per-room callbacks among them) changes either slot.
C22_GlobalSlotsIndependent ==
    [][/\ Len(data'.process_fn) <= 1
       /\ Len(data'.physics_process_fn) <= 1
       /\ IF last'.op = "register_process_fn" /\ last'.result.kind = "ok"
          THEN data' = [data EXCEPT !.process_fn = Slot(last'.args[1])]
          ELSE data'.process_fn = data.process_fn
       /\ IF last'.op = "register_physics_process_fn" /\ last'.result.kind = "ok"
          THEN data' = [data EXCEPT !.physics_process_fn = Slot(last'.args[1])]
          ELSE data'.physics_process_fn = data.physics_process_fn]_vars

\* the process slot was set after the physics slot and a per-room process
\* callback, and all three are kept
C22_Witness ==
    /\ last.op = "register_process_fn"
    /\ data.process_fn = Slot(last.args[1])
    /\ data.physics_process_fn /= None
    /\ data.physics_process_fn /= data.process_fn
    /\ data.room_process_fns /= EmptyMap

(***************************************************************************)
(* Threads                                                                 *)
(***************************************************************************)
\* thread t is in a call
Running(t) == frames[t].at /= "idle"

\* the positions of a call before it takes the lock and after it gave it back
Unguarded == {"idle", "convert", "validate_filename", "lock", "compute"}

Accesses ==
    {"validate_path", "unwrap", "assign", "push", "process", "physics_process",
     "insert", "create_registry_value", "clone", "island_config", "rooms"}

\* C24: every call works on the container within one hold of the lock: it
\* takes the lock at most once and holds it at every statement that reads or
\* writes the container.  So whenever the lock is free the memory is what the
\* calls that gave it back so far produce when applied whole, one after the
\* other in that order (no call is half applied when another can look), and
\* each call returns what it returns in that serial order.
C24_SerialEquivalence ==
    /\ mutex.holder = NoHolder => (mem = data /\ mutex.poisoned = poisoned)
    /\ \A t \in Threads :
          /\ frames[t].locks <= 1
          /\ frames[t].at \in Accesses => mutex.holder = t
          /\ (frames[t].at = "idle" /\ frames[t].lin)
                => /\ frames[t].serial.op = frames[t].op
                   /\ frames[t].serial.result = frames[t].result

\* the host asks for the projection while the script's register_room has
\* pushed its room and not yet stored its callbacks
C24_Witness ==
    /\ At("script", "register_room", "physics_process")
    /\ At("host", "get_mechanics_island_data", "lock")
    /\ IsSome(mem.island_config)
    /\ mem.rooms /= data.rooms
    /\ mem.room_process_fns /= EmptyMap
    /\ mutex.holder = "script"

\* the positions at which the next statement calls the path validator or
\* calls into the interpreter (options.get, lua.create_registry_value)
CallsOut ==
    {"validate_path", "unwrap", "process", "physics_process", "create_registry_value"}

\* C25: no thread holds the lock at a statement that calls the path validator
\* or calls into the interpreter to store a callback reference; the lock is
\* held only over the file read and the deserialization.
C25_NoCallOutUnderLock ==
    \A t \in Threads : frames[t].at \in CallsOut => mutex.holder /= t

(***************************************************************************)
(* The projection as a snapshot                                            *)
(***************************************************************************)
\* what rooms_are_adjacent answers on `projection` for every pair of ids and
\* either build
Answers(projection) ==
    [a \in RoomIdArgs, b \in RoomIdArgs, checks \in BOOLEAN |->
        rooms_are_adjacent(projection, a, b, checks)]

\* C26: the projection get_mechanics_island_data returns holds the Island
\* config and the whole room list of the container at the call, in the order
\* of the list, whether the rooms came before or after the config; and a
\* register_room or load_island_config made later leaves the projection the
\* host holds, and every rooms_are_adjacent answer on it, as they were.
C26_ProjectionIsSnapshot ==
    [][/\ (last'.op = "get_mechanics_island_data" /\ last'.result.kind = "ok"
           /\ data.island_config /= << >>)
             => /\ last'.result.val =
                     << [island |-> data.island_config[1], rooms |-> data.rooms] >>
                /\ hist'.held = last'.result.val
       /\ (last'.op \in {"register_room", "load_island_config"}
           /\ hist.held /= << >>)
             => /\ hist'.held = hist.held
                /\ Answers(hist'.held[1]) = Answers(hist.held[1])]_vars

\* the host holds a projection taken when room 1 was loaded and room 2 was
\* not: it says the two are not adjacent, and the container, with room 2
\* registered since, says they are
C26_Witness ==
    /\ last.op = "register_room"
    /\ hist.held /= << >>
    /\ Len(hist.held[1].rooms) = 1
    /\ Len(data.rooms) = 2
    /\ ~rooms_are_adjacent(hist.held[1], 1, 2, FALSE).value
    /\ rooms_are_adjacent(Unwrap(MechanicsIslandData(data)), 1, 2, FALSE).value

(***************************************************************************)
(* Grid construction                                                       *)
(***************************************************************************)
\* the number of cells of the room
Cells(room) == room.extent_x * room.extent_y * room.extent_z

\* every index of the tile map names a cell of the room
IndicesInRange(room) == \A e \in room.tiles : 0 <= e[1] /\ e[1] < Cells(room)

\* the tile the map gives index i, TileData::None where it gives none
TileAt(room, i) ==
    IF \E e \in room.tiles : e[1] = i
    THEN (CHOOSE e \in room.tiles : e[1] = i)[2]
    ELSE [tag |-> "None", palette |-> 0, target |-> 0]

\* C27: for a room whose tile indices all name cells of the room, create_grid
\* returns (without a panic) a grid of extent_x * extent_y * extent_z cells
\* with the extents and looping flags of the room, in which cell i holds the
\* tile the map gives i and TileData::None where the map gives none; the room
\* is as it was.
C27_GridIsDenseTiles ==
    [][(grid'.done /\ IndicesInRange(grid.room))
        => /\ grid'.room = grid.room
           /\ ~grid'.res.panic
           /\ LET g == grid'.res.value
              IN  /\ Len(g.data) = Cells(grid.room)
                  /\ g.grid.size_x * g.grid.size_y * g.grid.size_z = Cells(grid.room)
                  /\ << g.grid.size_x, g.grid.size_y, g.grid.size_z >> =
                       << grid.room.extent_x, grid.room.extent_y, grid.room.extent_z >>
                  /\ << g.grid.looping_x, g.grid.looping_y, g.grid.looping_z >> =
                       << grid.room.looping_x, grid.room.looping_y,
                          grid.room.looping_z >>
                  /\ \A i \in 0..(Cells(grid.room) - 1) :
                        g.data[i + 1] = TileAt(grid.room, i)]_vars

\* a grid of eight cells built from a looping room with a tile and a door
C27_Witness ==
    /\ grid.done
    /\ ~grid.res.panic
    /\ Cells(grid.room) = 8
    /\ grid.room.looping_y
    /\ Cardinality(grid.room.tiles) = 2
    /\ \E e \in grid.room.tiles : e[2].tag = "Door" /\ grid.res.value.data[e[1] + 1] = e[2]
    /\ \E e \in grid.room.tiles : e[2].tag = "Tile" /\ grid.res.value.data[e[1] + 1] = e[2]

(***************************************************************************)
(* Failed calls                                                            *)
(***************************************************************************)
\* C29: a register_room that returns an error leaves the room list (and so
\* get_room_count) and both per-room callback maps exactly as they were.
C29_FailedRegisterRoomNoEffect ==
    [][(last'.op = "register_room" /\ last'.result.kind = "err")
        => /\ data'.rooms = data.rooms
           /\ Len(data'.rooms) = Len(data.rooms)
           /\ data'.room_process_fns = data.room_process_fns
           /\ data'.room_physics_process_fns = data.room_physics_process_fns]_vars

\* C30: a call that fails changes nothing of the container, and no call
\* finds the container beyond acquiring: none ends in the panic of a
\* poisoned lock.
C30_FailureLeavesContainerUsable ==
    [][/\ last'.result.kind /= "ok" => Container' = Container
       /\ last'.result /= PoisonPanic]_vars

(***************************************************************************)
(* Per-room callback maps and the room list                                *)
(***************************************************************************)
\* the ids of the rooms in the list
LoadedRoomIds == {data.rooms[i].room_id : i \in 1..Len(data.rooms)}

\* the id of the room the i-th successful registration of `log` loaded
RegisteredId(log, i) == FileRecord("Room", log[i][1]).val.room_id

\* the successful registrations of `log` that loaded a room with id `id` and
\* supplied the callback `key`
Suppliers(log, key, id) ==
    {i \in 1..Len(log) : RegisteredId(log, i) = id /\ log[i][2][key].t = "function"}

\* the callback map the successful registrations of `log` make for `key`: for
\* every id with a supplier, the callback of the latest one
LatestCallbacks(log, key) ==
    LET ids == {id \in {RegisteredId(log, i) : i \in 1..Len(log)} :
                    Suppliers(log, key, id) /= {}}
    IN  [id \in ids |->
            LET given == Suppliers(log, key, id)
                latest == CHOOSE i \in given : \A j \in given : j <= i
            IN  [registry_key |-> log[latest][2][key].v]]

\* C31: every key of the per-room process map and of the per-room
\* physics-process map is the id of a room in the list, and each map holds
\* for an id the one callback of the latest registration of a room with that
\* id that supplied one.
C31_CallbackKeysAreRoomIds ==
    /\ DOMAIN data.room_process_fns \subseteq LoadedRoomIds
    /\ DOMAIN data.room_physics_process_fns \subseteq LoadedRoomIds
    /\ data.room_process_fns = LatestCallbacks(hist.rooms, "process")
    /\ data.room_physics_process_fns = LatestCallbacks(hist.rooms, "physics_process")

(***************************************************************************)
(* Rooms that share an id                                                  *)
(***************************************************************************)
\* the positions of the list at which a room with the id stands first
FirstWith(room_list, id) ==
    {i \in 1..Len(room_list) :
        /\ room_list[i].room_id = id
        /\ \A j \in 1..(i - 1) : room_list[j].room_id /= id}

\* the answer the earliest-registered rooms with ids a and b give
EarliestAnswer(room_list, a, b, overflow_checks) ==
    IF a = b \/ FirstWith(room_list, a) = {} \/ FirstWith(room_list, b) = {}
    THEN FALSE
    ELSE LET i == CHOOSE i \in FirstWith(room_list, a) : TRUE
             j == CHOOSE j \in FirstWith(room_list, b) : TRUE
         IN  are_adjacent(room_list[i], room_list[j], overflow_checks).value

\* the step registers a room under an id that a room of the list has already
AddsUsedId ==
    /\ Len(data'.rooms) = Len(data.rooms) + 1
    /\ \E i \in 1..Len(data.rooms) :
            data.rooms[i].room_id = data'.rooms[Len(data'.rooms)].room_id

\* C32: every answer of rooms_are_adjacent(a, b) is the one the geometry of
\* the earliest-registered room with id a and of the earliest-registered room
\* with id b gives, and registering a room under an id already in use
\* changes the outcome of no adjacency query.
C32_EarliestRoomDecides ==
    [][/\ (last'.op = "rooms_are_adjacent" /\ last'.result.kind = "ok")
            => \E checks \in BOOLEAN :
                    last'.result.val =
                        EarliestAnswer(data.rooms, last'.args[1], last'.args[2], checks)
       /\ AddsUsedId
            => \A a \in RoomIdArgs, b \in RoomIdArgs, checks \in BOOLEAN :
                    ScriptRoomsAreAdjacentResult(data', poisoned', a, b, checks) =
                        ScriptRoomsAreAdjacentResult(data, poisoned, a, b, checks)]_vars

\* with the config loaded, a second room with id 2 was registered apart from
\* room 1, which the first room with id 2 touches: rooms 1 and 2 are adjacent
\* as before
C32_Witness ==
    /\ last.op = "register_room"
    /\ last.result.kind = "ok"
    /\ IsSome(data.island_config)
    /\ Len(data.rooms) = 3
    /\ data.rooms[2].room_id = data.rooms[3].room_id
    /\ data.rooms[1].room_id /= data.rooms[2].room_id
    /\ are_adjacent(data.rooms[1], data.rooms[2], TRUE).value
    /\ ~are_adjacent(data.rooms[1], data.rooms[3], TRUE).value
    /\ ScriptRoomsAreAdjacentResult(data, poisoned, data.rooms[1].room_id,
                                    data.rooms[3].room_id, TRUE) = Ok(TRUE)

(***************************************************************************)
(* Adjacent rooms do not overlap                                           *)
(***************************************************************************)
\* every extent of the room is strictly positive
PositiveExtents(r) == \A k \in Axes : Extent(r, k) > 0

\* the volumes [pos, pos + extent) of the rooms have no point in common
DisjointVolumes(a, b) ==
    \E k \in Axes : Hi(a, k) <= Lo(b, k) \/ Hi(b, k) <= Lo(a, k)

\* C33: for rooms a and b with strictly positive extents on every axis, if
\* Room::are_adjacent(a, b) is true then the volumes of a and b do not
\* intersect: rooms whose volumes overlap are never reported adjacent.
C33_AdjacentRoomsDisjoint ==
    (/\ adj.done
     /\ PositiveExtents(adj.a) /\ PositiveExtents(adj.b)
     /\ ~adj.res.panic
     /\ adj.res.value)
    => DisjointVolumes(adj.a, adj.b)

\* two rooms of positive extents that are reported adjacent; they meet on z
\* and their projections on x and on y overlap without being equal
C33_Witness ==
    /\ adj.done
    /\ PositiveExtents(adj.a) /\ PositiveExtents(adj.b)
    /\ ~adj.res.panic
    /\ adj.res.value
    /\ Hi(adj.a, "z") = Lo(adj.b, "z")
    /\ Lo(adj.a, "x") < Lo(adj.b, "x") /\ Lo(adj.b, "x") < Hi(adj.a, "x")
    /\ Lo(adj.a, "y") < Lo(adj.b, "y") /\ Lo(adj.b, "y") < Hi(adj.a, "y")

(***************************************************************************)
(* Upper bounds of a room in i64                                           *)
(***************************************************************************)
\* the answer of are_adjacent computed with unbounded integers
UnboundedAdjacent(a, b) ==
    \E k \in Axes :
        /\ TouchOn(a, b, k)
        /\ \A j \in Axes \ {k} : Overlap(Lo(a, j), Hi(a, j), Lo(b, j), Hi(b, j))

\* C34: for every position and extent a Room can hold, Room::are_adjacent
\* computes every upper bound pos + extent within i64 (no overflow panic, no
\* wrapped value), and its result is the one unbounded integers give.
C34_NoOverflow ==
    adj.done =>
        /\ \A k \in Axes : InI64(Hi(adj.a, k)) /\ InI64(Hi(adj.b, k))
        /\ ~adj.res.panic
        /\ adj.res.value = UnboundedAdjacent(adj.a, adj.b)

(***************************************************************************)
(* The part of the container an operation changes                          *)
(***************************************************************************)
ContainerParts ==
    {"tile_layers", "entity_layers", "tile_fields", "entity_fields",
     "island_config", "rooms", "entity_spawns", "gltf_registry", "base_path",
     "room_process_fns", "room_physics_process_fns", "process_fn",
     "physics_process_fn"}

\* the parts a successful call of the operation may change
OwnParts(op) ==
    CASE op = "set_tile_layers" -> {"tile_layers"}
      [] op = "set_entity_layers" -> {"entity_layers"}
      [] op = "register_tile_field" -> {"tile_fields"}
      [] op = "register_entity_field" -> {"entity_fields"}
      [] op = "load_island_config" -> {"island_config"}
      [] op = "load_entity_spawn" -> {"entity_spawns"}
      [] op = "register_room" ->
            {"rooms", "room_process_fns", "room_physics_process_fns"}
      [] op = "register_gltf" -> {"gltf_registry"}
      [] op = "register_process_fn" -> {"process_fn"}
      [] op = "register_physics_process_fn" -> {"physics_process_fn"}
      [] OTHER -> {}

\* the parts the step changes
ChangedParts == {part \in ContainerParts : data'[part] /= data[part]}

\* the registry keeps the sequence of every kind but `kind`
OtherKindsKept(before, after, kind) ==
    /\ DOMAIN after \subseteq DOMAIN before \cup {kind}
    /\ \A k \in DOMAIN before \ {kind} : k \in DOMAIN after /\ after[k] = before[k]

\* C35: a successful operation changes only its own part of the container
\* (a field registration only the sequence of its kind), the queries change
\* nothing, a successful call leaves the lock usable, and no operation
\* changes the base directory.
C35_OnlyOwnPartChanges ==
    [][/\ data'.base_path = data.base_path
       /\ last'.result.kind = "ok" =>
            /\ DOMAIN data' = ContainerParts
            /\ ChangedParts \subseteq OwnParts(last'.op)
            /\ poisoned' = poisoned
            /\ last'.op = "register_tile_field" =>
                    OtherKindsKept(data.tile_fields, data'.tile_fields, last'.args[1])
            /\ last'.op = "register_entity_field" =>
                    OtherKindsKept(data.entity_fields, data'.entity_fields,
                                   last'.args[1])]_vars

\* a tile layer list was set on a container that already holds a room and a
\* tile field: the entity layers are still empty, room and field are kept
C35_Witness ==
    /\ last.op = "set_tile_layers"
    /\ last.result.kind = "ok"
    /\ data.tile_layers /= << >>
    /\ data.entity_layers = << >>
    /\ Len(data.rooms) = 1
    /\ DOMAIN data.tile_fields /= {}

(***************************************************************************)
(* Multiplayer wizard                                                      *)
(***************************************************************************)
\* both buttons are disabled
ButtonsDisabled(w) == w.host_disabled /\ w.join_disabled

\* the step is a process() that takes an event of the kind from the channel
Consumes(kind) ==
    /\ wizard.rx /= << >>
    /\ Head(wizard.rx).kind = kind
    /\ wizard'.rx = Tail(wizard.rx)

\* the step is a send of task i
Sends(i) ==
    /\ Len(wizard'.rx) = Len(wizard.rx) + 1
    /\ wizard'.rx[Len(wizard'.rx)].from = i

\* task i has sent an Error
SentError(w, i) == w.tasks[i].at \in {"return", "done"}

\* the tasks that have been spawned and have not ended
LiveTasks(w) == {i \in 1..Len(w.tasks) : w.tasks[i].at /= "done"}

\* C36: a press handler that gets to spawn leaves both buttons disabled and
\* its task running; the buttons stay disabled until process() consumes an
\* Error, a Message never enables them, a task sends nothing after its
\* Error, and at most one task is live at any time.
C36_OneLiveSocketTask ==
    [][/\ Len(wizard'.tasks) > Len(wizard.tasks)
            => /\ ButtonsDisabled(wizard')
               /\ Len(wizard'.tasks) \in LiveTasks(wizard')
       /\ (ButtonsDisabled(wizard) /\ ~ButtonsDisabled(wizard')) => Consumes("Error")
       /\ Consumes("Message")
            => /\ wizard'.host_disabled = wizard.host_disabled
               /\ wizard'.join_disabled = wizard.join_disabled
       /\ \A i \in 1..Len(wizard.tasks) : SentError(wizard, i) => ~Sends(i)
       /\ Cardinality(LiveTasks(wizard')) <= 1]_vars

=============================================================================
